---------------------------- MODULE Spec2Model ----------------------------
(***************************************************************************)
(* Model of the hierarchy flattener and the CFR reference synthesizer of   *)
(* code/download_ecfr_titles.py.                                           *)
(*                                                                         *)
(* Python values are represented as follows.  A dict is a function whose   *)
(* DOMAIN is its key set.  A str is a TLA+ string.  The object None and a  *)
(* raised KeyError are two reserved strings that no input value uses.  A   *)
(* list is a sequence.  A node of the structure tree is referred to by its *)
(* address in heap, so that the in-place deletion of keys and the sharing  *)
(* of nodes between a call and its parent_chain are those of the program.  *)
(***************************************************************************)
EXTENDS Integers, Sequences, FiniteSets, TLC

VARIABLES
    heap,       \* address -> node dict (the parsed structure JSON, mutable)
    tree_before,  \* history: the tree as it was when the flatten call started
    stack,      \* the activation records of the running flatten call
    results,    \* the results list of the running / last flatten call
    visited,    \* history: visited[i] is the node results[i] was built from
    order_id,   \* content of the default argument order_id=[1] (one list per process)
    calls,      \* number of top-level flatten calls started in this process
    pc,         \* "idle" | "running" | "done"
    item,       \* the record handed to calculate_cfr_ref (reference runs)
    ref,        \* its return value, Pending before the call
    log,        \* the logger.warning messages of that call
    detail_records,  \* the list handed to batch_upsert_to_db, empty when none is
    threads,    \* thread -> its flatten invocation (concurrent runs)
    counters,   \* the counter lists [1] the callers created, one per thread
    records,    \* argument of the batch_upsert_to_db call
    batch_size, \* argument of the batch_upsert_to_db call
    table,      \* the target table: conflict key value -> row
    bpc,        \* position of the batch_upsert_to_db call
    batch_i,    \* the loop variable i of the loop over the batches
    fallback_j, \* position in the batch of the loop of individual upserts
    total_upserted,  \* the local variable total_upserted
    retval,     \* the value the call returned, Pending before
    oplog,      \* history: the database operations of the call, in order
    titles,     \* the table titles: title_number -> row
    title_details,   \* the table title_details: cfr_ref -> row
    rpc,        \* position of the process in the __main__ block
    runs,       \* number of process runs started
    next_title, \* index of the title the loop over the titles is at
    clock,      \* the wall clock get_standard_timestamp reads
    last_structure,  \* history: title_number -> the structure it was last processed with
    events      \* history: what get_parts_and_structure has done for the title at hand

vars ==
    <<heap, tree_before, stack, results, visited, order_id, calls, pc, item, ref, log,
      detail_records, threads, counters,
      records, batch_size, table, bpc, batch_i, fallback_j, total_upserted, retval, oplog,
      titles, title_details, rpc, runs, next_title, clock, last_structure, events>>

flattenVars == <<heap, tree_before, stack, results, visited, order_id, calls, pc>>
refVars == <<item, ref, log>>
persistVars == <<detail_records>>
concVars == <<threads, counters>>
batchVars ==
    <<records, batch_size, table, bpc, batch_i, fallback_j, total_upserted, retval, oplog>>
runVars == <<titles, title_details, rpc, runs, next_title, clock, last_structure, events>>

---------------------------------------------------------------------------
(* Python values *)

None == "<None>"
KeyError == "<KeyError>"
Pending == "<pending>"

\* `k in d`
Has(d, k) == k \in DOMAIN d

\* d.get(k, default)
Get(d, k, default) == IF k \in DOMAIN d THEN d[k] ELSE default

\* d[k]: raises KeyError when the key is missing
Subscript(d, k) == IF k \in DOMAIN d THEN d[k] ELSE KeyError

\* bool(v) for a str or None
Truthy(v) == v /= "" /\ v /= None

\* str(v) as an f-string field renders it
Str(v) == IF v = None THEN "None" ELSE v

RECURSIVE Join(_)
Join(parts) == IF parts = <<>> THEN "" ELSE Str(Head(parts)) \o Join(Tail(parts))

\* an f-string: the fields are evaluated first, so a raising field raises
FString(parts) ==
    IF \E i \in DOMAIN parts : parts[i] = KeyError THEN KeyError ELSE Join(parts)

\* d1.update(d2) / d[k] = v
Update(d1, d2) ==
    [k \in DOMAIN d1 \cup DOMAIN d2 |-> IF k \in DOMAIN d2 THEN d2[k] ELSE d1[k]]

SetItem(d, k, v) == [x \in DOMAIN d \cup {k} |-> IF x = k THEN v ELSE d[x]]

\* del d[k] for the keys of ks that d has
DelKeys(d, ks) == [k \in DOMAIN d \ ks |-> d[k]]

EmptyDict == [k \in {} |-> ""]

---------------------------------------------------------------------------
(* calculate_cfr_ref *)

\* a presence test that looks at the key only
PresentKeyOnly(it, k) == Has(it, k)

\* `"k" in item and item["k"]`
Present(it, k) == Has(it, k) /\ Truthy(Subscript(it, k))

RefChapter(it, base_ref) ==
    LET chapter_id == Get(it, "chapter_identifier", "")
    IN  IF Truthy(chapter_id) THEN FString(<<base_ref, " ch", chapter_id>>) ELSE base_ref

RefSubchapterEither(it, base_ref) ==
    LET chapter_id == Get(it, "chapter_identifier", "")
        subchapter_id == Get(it, "subchapter_identifier", "")
    IN  IF Truthy(chapter_id) \/ Truthy(subchapter_id)
        THEN FString(<<base_ref, " ch", chapter_id, "-", subchapter_id>>)
        ELSE base_ref

RefSubchapter(it, base_ref) ==
    LET chapter_id == Get(it, "chapter_identifier", "")
        subchapter_id == Get(it, "subchapter_identifier", "")
    IN  IF Truthy(chapter_id) /\ Truthy(subchapter_id)
        THEN FString(<<base_ref, " ch", chapter_id, "-", subchapter_id>>)
        ELSE base_ref

RefPart(it, base_ref) ==
    LET part_id == Get(it, "part_identifier", "")
    IN  IF Truthy(part_id) THEN FString(<<base_ref, " pt", part_id>>) ELSE base_ref

RefSubpart(it, base_ref) ==
    LET part_id == Get(it, "part_identifier", "")
        subpart_id == Get(it, "subpart_identifier", "")
    IN  IF Truthy(part_id) /\ Truthy(subpart_id)
        THEN FString(<<base_ref, " pt", part_id, "-", subpart_id>>)
        ELSE base_ref

RefSection(it, base_ref) ==
    LET section_id == Get(it, "section_identifier", "")
    IN  IF Truthy(section_id) THEN FString(<<base_ref, " §", section_id>>) ELSE base_ref

\* the appendix branch with the part context tried before the section context
RefAppendixPartFirst(it, base_ref) ==
    LET appendix_id == Get(it, "appendix_identifier", "")
    IN  IF Present(it, "part_identifier")
        THEN LET part_id == Subscript(it, "part_identifier")
             IN  IF Truthy(appendix_id)
                 THEN FString(<<base_ref, " pt", part_id, " ( ", appendix_id, ")">>)
                 ELSE FString(<<base_ref, " pt", part_id>>)
        ELSE IF Present(it, "section_identifier")
        THEN LET section_id == Subscript(it, "section_identifier")
             IN  IF Truthy(appendix_id)
                 THEN FString(<<base_ref, " §", section_id, " ( ", appendix_id, ")">>)
                 ELSE FString(<<base_ref, " §", section_id>>)
        ELSE IF Truthy(appendix_id)
             THEN FString(<<base_ref, " ( ", appendix_id, ")">>)
             ELSE base_ref

RefAppendix(it, base_ref) ==
    IF Present(it, "section_identifier")
    THEN LET section_id == Subscript(it, "section_identifier")
             appendix_id == Get(it, "appendix_identifier", "")
         IN  IF Truthy(appendix_id)
             THEN FString(<<base_ref, " §", section_id, " ( ", appendix_id, ")">>)
             ELSE FString(<<base_ref, " §", section_id>>)
    ELSE IF Present(it, "part_identifier")
    THEN LET part_id == Subscript(it, "part_identifier")
             appendix_id == Get(it, "appendix_identifier", "")
         IN  IF Truthy(appendix_id)
             THEN FString(<<base_ref, " pt", part_id, " ( ", appendix_id, ")">>)
             ELSE FString(<<base_ref, " pt", part_id>>)
    ELSE LET appendix_id == Get(it, "appendix_identifier", "")
         IN  IF Truthy(appendix_id)
             THEN FString(<<base_ref, " ( ", appendix_id, ")">>)
             ELSE base_ref

\* the context-dependent base of the subject_group branch
SubjGrpBase(it, base_ref) ==
    IF Present(it, "appendix_identifier")
    THEN LET section_id == Get(it, "section_identifier", "")
             appendix_id == Subscript(it, "appendix_identifier")
         IN  IF Truthy(section_id)
             THEN FString(<<base_ref, " §", section_id, " ( ", appendix_id, ")">>)
             ELSE FString(<<base_ref, " ( ", appendix_id, ")">>)
    ELSE IF Present(it, "section_identifier")
    THEN FString(<<base_ref, " §", Subscript(it, "section_identifier")>>)
    ELSE IF Present(it, "subpart_identifier")
    THEN LET part_id == Get(it, "part_identifier", "")
             subpart_id == Subscript(it, "subpart_identifier")
         IN  IF Truthy(part_id)
             THEN FString(<<base_ref, " pt", part_id, "-", subpart_id>>)
             ELSE FString(<<base_ref, " (Subpart ", subpart_id, ")">>)
    ELSE IF Present(it, "part_identifier")
    THEN FString(<<base_ref, " pt", Subscript(it, "part_identifier")>>)
    ELSE IF Present(it, "subchapter_identifier")
    THEN LET chapter_id == Get(it, "chapter_identifier", "")
             subchapter_id == Subscript(it, "subchapter_identifier")
         IN  IF Truthy(chapter_id)
             THEN FString(<<base_ref, " ch", chapter_id, "-", subchapter_id>>)
             ELSE FString(<<base_ref, " (Subchapter ", subchapter_id, ")">>)
    ELSE base_ref

\* the subject_group branch with the part context tried before the subpart context
RefSubjectGroupPartFirst(it, base_ref) ==
    LET subj_grp_id == Get(it, "subject_group_identifier", "")
        subj_grp_suffix ==
            IF Truthy(subj_grp_id) THEN FString(<<" (Subj Grp ", subj_grp_id, ")">>) ELSE ""
        base == IF /\ Present(it, "part_identifier")
                   /\ ~Present(it, "appendix_identifier")
                   /\ ~Present(it, "section_identifier")
                THEN FString(<<base_ref, " pt", Subscript(it, "part_identifier")>>)
                ELSE SubjGrpBase(it, base_ref)
    IN  FString(<<base, subj_grp_suffix>>)

RefSubjectGroup(it, base_ref) ==
    LET subj_grp_id == Get(it, "subject_group_identifier", "")
        subj_grp_suffix ==
            IF Truthy(subj_grp_id) THEN FString(<<" (Subj Grp ", subj_grp_id, ")">>) ELSE ""
        base == SubjGrpBase(it, base_ref)
    IN  FString(<<base, subj_grp_suffix>>)

\* an unknown type that raises instead of degrading
RefUnknownRaises(hierarchy_type, base_ref) == KeyError

RefUnknown(hierarchy_type, base_ref) == FString(<<base_ref, " (", hierarchy_type, ")">>)

\* the early return on a missing title identifier
RefNoTitle(hierarchy_type) == FString(<<"CFR ", hierarchy_type>>)

KnownTypes ==
    {"title", "chapter", "subchapter", "part", "subpart", "section", "appendix",
     "subject_group"}

calculate_cfr_ref(it) ==
    LET hierarchy_type == Get(it, "hierarchy_type", None)
        title_id == Get(it, "title_identifier", "")
    IN  IF ~Truthy(title_id)
        THEN RefNoTitle(hierarchy_type)
        ELSE LET base_ref == FString(<<title_id, " CFR">>)
             IN  CASE hierarchy_type = "title" -> base_ref
                   [] hierarchy_type = "chapter" -> RefChapter(it, base_ref)
                   [] hierarchy_type = "subchapter" -> RefSubchapter(it, base_ref)
                   [] hierarchy_type = "part" -> RefPart(it, base_ref)
                   [] hierarchy_type = "subpart" -> RefSubpart(it, base_ref)
                   [] hierarchy_type = "section" -> RefSection(it, base_ref)
                   [] hierarchy_type = "appendix" -> RefAppendix(it, base_ref)
                   [] hierarchy_type = "subject_group" -> RefSubjectGroup(it, base_ref)
                   [] OTHER -> RefUnknown(hierarchy_type, base_ref)

\* a synthesizer that warns about a missing title identifier only
calculate_cfr_ref_log_title_only(it) ==
    LET hierarchy_type == Get(it, "hierarchy_type", None)
        title_id == Get(it, "title_identifier", "")
    IN  IF ~Truthy(title_id)
        THEN <<FString(<<"Missing title_identifier for ", hierarchy_type, " item">>)>>
        ELSE <<>>

\* the logger.warning calls of calculate_cfr_ref, in order
calculate_cfr_ref_log(it) ==
    LET hierarchy_type == Get(it, "hierarchy_type", None)
        title_id == Get(it, "title_identifier", "")
    IN  IF ~Truthy(title_id)
        THEN <<FString(<<"Missing title_identifier for ", hierarchy_type, " item">>)>>
        ELSE IF hierarchy_type \in KnownTypes
        THEN <<>>
        ELSE <<FString(<<"Unknown hierarchy_type: ", hierarchy_type>>)>>

---------------------------------------------------------------------------
(* flatten_all_elements_with_full_hierarchy *)

remove_list == {"size", "volumes", "descendant_range"}

\* a strip that deletes the key size only
StripSizeOnly(node) == DelKeys(node, {"size"})

\* a strip that deletes the identifier with the keys of remove_list
StripAlsoIdentifier(node) == DelKeys(node, remove_list \cup {"identifier"})

\* lines 605-607: del node[key] for the keys of remove_list the node has
Strip(node) == DelKeys(node, remove_list)

\* node.get("type", "root")
Prefix(node) == Get(node, "type", "root")

\* f"{prefix}_{k}"
NsKey(prefix, k) == Str(prefix) \o "_" \o k

\* {f"{prefix}_{k}": v for k, v in node.items() if k not in excluded}
Namespaced(node, excluded) ==
    LET ks == DOMAIN node \ excluded
    IN  [key \in {NsKey(Prefix(node), k) : k \in ks} |->
            node[CHOOSE k \in ks : NsKey(Prefix(node), k) = key]]

\* a merge in which the ancestor farther from the node keeps a shared key
RECURSIVE combined_parent_fields_farther_wins(_, _)
combined_parent_fields_farther_wins(h, parent_chain) ==
    IF parent_chain = <<>>
    THEN EmptyDict
    ELSE LET n == Len(parent_chain)
         IN  Update(Namespaced(h[parent_chain[n]], {"children"}),
                    combined_parent_fields_farther_wins(h, SubSeq(parent_chain, 1, n - 1)))

\* the loop over parent_chain, root first, each ancestor overwriting the
\* keys the ancestors before it have set
RECURSIVE combined_parent_fields(_, _)
combined_parent_fields(h, parent_chain) ==
    IF parent_chain = <<>>
    THEN EmptyDict
    ELSE LET n == Len(parent_chain)
         IN  Update(combined_parent_fields(h, SubSeq(parent_chain, 1, n - 1)),
                    Namespaced(h[parent_chain[n]], {"children"}))

\* the node's own fields, without children and type
OwnFields(node) == Namespaced(node, {"children", "type"})

\* node.get("children", [])
NodeChildren(node) == Get(node, "children", <<>>)

\* a leaf test that looks at the presence of the key only
IsLeafKeyOnly(node) == ~Has(node, "children")

IsLeaf(node) == Len(NodeChildren(node)) = 0

\* a record whose metadata is set first and merged over afterwards
ElementMetadataFirst(h, a, parent_chain, level, oid) ==
    LET node == h[a]
        e1 == SetItem(EmptyDict, "hierarchy_level", level)
        e2 == SetItem(e1, "hierarchy_type", Get(node, "type", None))
        e3 == SetItem(e2, "order_id", oid)
        e4 == SetItem(e3, "is_leaf_node", IsLeaf(node))
        e5 == SetItem(e4, "cfr_ref", calculate_cfr_ref(e4))
    IN  Update(Update(e5, OwnFields(node)), combined_parent_fields(h, parent_chain))

\* the record built for the (stripped) node at address a
Element(h, a, parent_chain, level, oid) ==
    LET node == h[a]
        merged == Update(OwnFields(node), combined_parent_fields(h, parent_chain))
        e1 == SetItem(merged, "hierarchy_level", level)
        e2 == SetItem(e1, "hierarchy_type", Get(node, "type", None))
        e3 == SetItem(e2, "order_id", oid)
        e4 == SetItem(e3, "is_leaf_node", IsLeaf(node))
    IN  SetItem(e4, "cfr_ref", calculate_cfr_ref(e4))

\* the children visited last to first
ChildAtReversed(children, i) == children[Len(children) + 1 - i]

\* the i-th iteration of `for child in node.get("children", [])`
ChildAt(children, i) == children[i]

\* a chain that keeps the immediate parent only
ChildChainParentOnly(parent_chain, a) == <<a>>

\* parent_chain + [node]
ChildChain(parent_chain, a) == Append(parent_chain, a)

Frame(a, parent_chain, level) ==
    [node |-> a, parent_chain |-> parent_chain, level |-> level, i |-> 0]

Top == stack[Len(stack)]

---------------------------------------------------------------------------
(* the inputs: structure trees, as the structure JSON of a title decodes *)

MaxNodes == 4     \* nodes of a tree of arbitrary shape
MaxDepth == 3     \* nodes of a chain with arbitrary node types
MaxCalls == 2     \* top-level flatten calls in one process

Absent == "<absent>"

\* the identifier of the node at address i ("21", "100", "100.1" down a chain)
IdentOf(i) ==
    CASE i = 1 -> "21" [] i = 2 -> "100" [] i = 3 -> "100.1" [] OTHER -> ToString(i)

RECURSIVE SortedSeq(_)
SortedSeq(S) ==
    IF S = {} THEN <<>>
    ELSE LET m == CHOOSE x \in S : \A y \in S : x <= y
         IN  <<m>> \o SortedSeq(S \ {m})

\* parent[i] is the parent of node i; node 1 is the root
ParentVectors(n) == {p \in [2..n -> 1..n] : \A i \in 2..n : p[i] < i}

ChainVector(n) == [i \in 2..n |-> i - 1]

KidsOf(p, n, i) == SortedSeq({j \in 2..n : p[j] = i})

\* the attribute holding a node's identifier: "identifier" in the structure
\* JSON, "{type}_identifier" in the typed naming; in the clashing naming the
\* attribute that the type prefix turns into a reserved key of the record
AttrName(type, naming) ==
    CASE naming = "typed" /\ type \in KnownTypes -> type \o "_identifier"
      [] naming = "clashing" /\ type = "hierarchy" -> "level"
      [] naming = "clashing" /\ type = "order" -> "id"
      [] naming = "clashing" /\ type = "is" -> "leaf_node"
      [] naming = "clashing" /\ type = "cfr" -> "ref"
      [] OTHER -> "identifier"

\* the volatile attributes a node of the type carries
VolatileOf(type) ==
    CASE type = "title" -> {"size", "volumes"}
      [] type = "part" -> {"descendant_range"}
      [] type = Absent -> {"size"}
      [] OTHER -> {}

\* a node dict; a childless section carries an empty children list (leafkey)
\* or no children key at all, any other childless node an empty list; the
\* attributes level and id are JSON numbers, leaf_node a JSON boolean, and
\* none of them is the value flatten computes for the node
MkNode(type, naming, i, kids, leafkey) ==
    LET keys == (IF type = Absent THEN {} ELSE {"type"})
                \cup {AttrName(type, naming)}
                \cup VolatileOf(type)
                \cup (IF kids = <<>> /\ type = "section" /\ ~leafkey
                      THEN {} ELSE {"children"})
    IN  [k \in keys |->
            CASE k = "type" -> type
              [] k = "children" -> kids
              [] k \in remove_list -> "v"
              [] k = "level" -> 100 + i
              [] k = "id" -> 0 - i
              [] k = "leaf_node" -> kids /= <<>>
              [] OTHER -> IdentOf(i)]

MkTree(p, n, types, naming, leafkey) ==
    [i \in 1..n |-> MkNode(types[i], naming, i, KidsOf(p, n, i), leafkey)]

ChainTypes == {"title", "part", "section", Absent, None}
Namings == {"identifier", "typed"}

ShapeTypes == {"part", "section"}

ShapeTrees ==
    UNION {{MkTree(p, n, ty, "identifier", lk) :
                p \in ParentVectors(n), ty \in [1..n -> ShapeTypes], lk \in BOOLEAN} :
           n \in 1..MaxNodes}

ChainTrees ==
    UNION {{MkTree(ChainVector(n), n, ty, nm, lk) :
                ty \in [1..n -> ChainTypes], nm \in Namings, lk \in BOOLEAN} :
           n \in 1..MaxDepth}

\* types whose prefix, joined to an attribute name, gives a reserved key
ClashTypes == {"hierarchy", "order", "is", "cfr"}

ClashTrees ==
    UNION {{MkTree(ChainVector(n), n, ty, "clashing", TRUE) :
                ty \in [1..n -> ClashTypes]} :
           n \in 1..MaxDepth}

Trees == ShapeTrees \cup ChainTrees \cup ClashTrees

---------------------------------------------------------------------------
(* the flatten state machine *)

\* line 223: flattened = flatten_all_elements_with_full_hierarchy(structure_json)
\* results and parent_chain are fresh lists, order_id is the default argument
Call ==
    /\ pc = "idle"
    /\ calls < MaxCalls
    /\ \E t \in Trees : heap' = t /\ tree_before' = t
    /\ stack' = <<Frame(1, <<>>, 0)>>
    /\ results' = <<>>
    /\ visited' = <<>>
    /\ calls' = calls + 1
    /\ pc' = "running"
    /\ UNCHANGED <<order_id>>
    /\ UNCHANGED <<refVars, persistVars, concVars, batchVars, runVars>>

\* lines 598-639 of the activation on top of the stack
Body ==
    /\ pc = "running"
    /\ Top.i = 0
    /\ LET a == Top.node
           h == [heap EXCEPT ![a] = Strip(heap[a])]
       IN  /\ heap' = h
           /\ results' = Append(results, Element(h, a, Top.parent_chain, Top.level, order_id))
           /\ visited' = Append(visited, a)
    /\ order_id' = order_id + 1
    /\ stack' = [stack EXCEPT ![Len(stack)].i = 1]
    /\ UNCHANGED <<tree_before, calls, pc>>
    /\ UNCHANGED <<refVars, persistVars, concVars, batchVars, runVars>>

\* lines 642-643: the next iteration of the loop over the children
Recurse ==
    /\ pc = "running"
    /\ Top.i >= 1
    /\ Top.i <= Len(NodeChildren(heap[Top.node]))
    /\ stack' = Append([stack EXCEPT ![Len(stack)].i = Top.i + 1],
                       Frame(ChildAt(NodeChildren(heap[Top.node]), Top.i),
                             ChildChain(Top.parent_chain, Top.node),
                             Top.level + 1))
    /\ UNCHANGED <<heap, tree_before, results, visited, order_id, calls, pc>>
    /\ UNCHANGED <<refVars, persistVars, concVars, batchVars, runVars>>

\* line 645: return results
Return ==
    /\ pc = "running"
    /\ Top.i >= 1
    /\ Top.i > Len(NodeChildren(heap[Top.node]))
    /\ stack' = SubSeq(stack, 1, Len(stack) - 1)
    /\ pc' = IF Len(stack) = 1 THEN "done" ELSE "running"
    /\ UNCHANGED <<heap, tree_before, results, visited, order_id, calls>>
    /\ UNCHANGED <<refVars, persistVars, concVars, batchVars, runVars>>

\* TITLE_NUMBERS, and the titles of it that the API lists, in the API's order
TITLE_NUMBERS == <<27, 21, 19, 26, 31>>

filtered_titles ==
    SelectSeq(<<19, 21>>, LAMBDA n : \E k \in DOMAIN TITLE_NUMBERS : TITLE_NUMBERS[k] = n)

\* a filter that lets every flattened record through
filtered_flattened_unfiltered(flattened) == flattened

\* line 259: [item for item in flattened if item.get("hierarchy_type") != "title"]
filtered_flattened(flattened) ==
    SelectSeq(flattened, LAMBDA it : Get(it, "hierarchy_type", None) /= "title")

\* lines 273-297: the record with the columns of title_details
DetailRecord(it, title_number) ==
    [c \in {"cfr_ref", "reg_text", "reg_text_download_date", "hierarchy_type",
            "hierarchy_level", "is_leaf_node", "reserved", "order_id", "title_number",
            "chapter_id", "chapter_label", "subchapter_id", "subchapter_label",
            "part_id", "part_label", "subpart_id", "subpart_label", "section_id",
            "section_label", "appendix_id", "appendix_label", "subject_grp_id",
            "subject_grp_label"} |->
        CASE c = "cfr_ref" -> Get(it, "cfr_ref", None)
          [] c = "reg_text" -> None
          [] c = "reg_text_download_date" -> None
          [] c = "hierarchy_type" -> Get(it, "hierarchy_type", None)
          [] c = "hierarchy_level" -> Get(it, "hierarchy_level", None)
          [] c = "is_leaf_node" -> Get(it, "is_leaf_node", FALSE)
          [] c = "reserved" -> Get(it, "reserved", FALSE)
          [] c = "order_id" -> Get(it, "order_id", None)
          [] c = "title_number" -> title_number
          [] c = "chapter_id" -> Get(it, "chapter_identifier", None)
          [] c = "chapter_label" -> Get(it, "chapter_label", None)
          [] c = "subchapter_id" -> Get(it, "subchapter_identifier", None)
          [] c = "subchapter_label" -> Get(it, "subchapter_label", None)
          [] c = "part_id" -> Get(it, "part_identifier", None)
          [] c = "part_label" -> Get(it, "part_label", None)
          [] c = "subpart_id" -> Get(it, "subpart_identifier", None)
          [] c = "subpart_label" -> Get(it, "subpart_label", None)
          [] c = "section_id" -> Get(it, "section_identifier", None)
          [] c = "section_label" -> Get(it, "section_label", None)
          [] c = "appendix_id" -> Get(it, "appendix_identifier", None)
          [] c = "appendix_label" -> Get(it, "appendix_label", None)
          [] c = "subject_grp_id" -> Get(it, "subject_group_identifier", None)
          [] c = "subject_grp_label" -> Get(it, "subject_group_label", None)]

\* lines 266-305: the loop that builds detail_records, skipping the records
\* whose cfr_ref is falsy
PreparedRecords(filtered, title_number) ==
    LET kept == SelectSeq(filtered,
                          LAMBDA it : Truthy(DetailRecord(it, title_number)["cfr_ref"]))
    IN  [j \in 1..Len(kept) |-> DetailRecord(kept[j], title_number)]

\* lines 259-316: the list passed to batch_upsert_to_db (and, when that
\* raises, record by record to upsert_to_db); the empty list when nothing is
\* passed, because the function returns early (line 263) or detail_records
\* is empty (line 313)
HandedRecords(flattened, title_number) ==
    LET filtered == filtered_flattened(flattened)
    IN  IF filtered = <<>>
        THEN <<>>
        ELSE PreparedRecords(filtered, title_number)

\* lines 257-316 of get_parts_and_structure, after the flatten call returned
Persist ==
    /\ pc = "done"
    /\ \E k \in DOMAIN filtered_titles :
          detail_records' = HandedRecords(results, filtered_titles[k])
    /\ pc' = "persisted"
    /\ UNCHANGED <<heap, tree_before, stack, results, visited, order_id, calls>>
    /\ UNCHANGED <<refVars, concVars, batchVars, runVars>>

\* get_parts_and_structure is done with the records and returns to the loop
\* over the titles (lines 655-663): the tree and the records are dropped
NextTitle ==
    /\ pc = "persisted"
    /\ pc' = "idle"
    /\ heap' = <<>>
    /\ tree_before' = <<>>
    /\ results' = <<>>
    /\ visited' = <<>>
    /\ detail_records' = <<>>
    /\ UNCHANGED <<stack, order_id, calls>>
    /\ UNCHANGED <<refVars, concVars, batchVars, runVars>>

\* the state of the components that a specification does not run
NoPersist == detail_records = <<>>

NoConc == threads = <<>> /\ counters = <<>>

NoBatch ==
    /\ records = <<>>
    /\ batch_size = 0
    /\ table = EmptyDict
    /\ bpc = "idle"
    /\ batch_i = 0
    /\ fallback_j = 0
    /\ total_upserted = 0
    /\ retval = Pending
    /\ oplog = <<>>

NoRun ==
    /\ titles = EmptyDict
    /\ title_details = EmptyDict
    /\ rpc = "stopped"
    /\ runs = 0
    /\ next_title = 0
    /\ clock = 0
    /\ last_structure = EmptyDict
    /\ events = <<>>

Init ==
    /\ heap = <<>>
    /\ tree_before = <<>>
    /\ stack = <<>>
    /\ results = <<>>
    /\ visited = <<>>
    /\ order_id = 1
    /\ calls = 0
    /\ pc = "idle"
    /\ item = EmptyDict
    /\ ref = Pending
    /\ log = <<>>
    /\ NoPersist /\ NoConc /\ NoBatch /\ NoRun

Next ==
    \/ Call
    \/ Body
    \/ Recurse
    \/ Return
    \/ Persist
    \/ NextTitle

Spec == Init /\ [][Next]_vars

---------------------------------------------------------------------------
(* calculate_cfr_ref on its own: every record over the identifier keys *)

IdKeys ==
    {"title_identifier", "chapter_identifier", "subchapter_identifier",
     "part_identifier", "subpart_identifier", "section_identifier",
     "appendix_identifier", "subject_group_identifier"}

\* the non-empty values an identifier takes in the records
IdValues(k) ==
    CASE k = "title_identifier" -> {"19", "26"}
      [] k = "chapter_identifier" -> {"I"}
      [] k = "subchapter_identifier" -> {"B"}
      [] k = "part_identifier" -> {"200"}
      [] k = "subpart_identifier" -> {"C"}
      [] k = "section_identifier" -> {"5"}
      [] k = "appendix_identifier" -> {"A"}
      [] k = "subject_group_identifier" -> {"3"}

\* hierarchy_type: a known kind, an unrecognized one, None, or no key
RefTypes == KnownTypes \cup {"volume", None, Absent}

\* an identifier key is missing, empty, or holds one of its values
IdOptions(k) == {Absent, ""} \cup IdValues(k)

\* the record with the given hierarchy_type and identifiers, Absent for no key
RefItem(type, t, ch, sc, pt, sp, se, ap, sg) ==
    LET choice == [k \in IdKeys |->
                    CASE k = "title_identifier" -> t
                      [] k = "chapter_identifier" -> ch
                      [] k = "subchapter_identifier" -> sc
                      [] k = "part_identifier" -> pt
                      [] k = "subpart_identifier" -> sp
                      [] k = "section_identifier" -> se
                      [] k = "appendix_identifier" -> ap
                      [] k = "subject_group_identifier" -> sg]
        keys == {k \in IdKeys : choice[k] /= Absent}
                \cup (IF type = Absent THEN {} ELSE {"hierarchy_type"})
    IN  [k \in keys |-> IF k = "hierarchy_type" THEN type ELSE choice[k]]

InitRef ==
    /\ heap = <<>>
    /\ tree_before = <<>>
    /\ stack = <<>>
    /\ results = <<>>
    /\ visited = <<>>
    /\ order_id = 1
    /\ calls = 0
    /\ pc = "idle"
    /\ \E type \in RefTypes,
          t \in IdOptions("title_identifier"), ch \in IdOptions("chapter_identifier"),
          sc \in IdOptions("subchapter_identifier"), pt \in IdOptions("part_identifier"),
          sp \in IdOptions("subpart_identifier"), se \in IdOptions("section_identifier"),
          ap \in IdOptions("appendix_identifier"),
          sg \in IdOptions("subject_group_identifier") :
            item = RefItem(type, t, ch, sc, pt, sp, se, ap, sg)
    /\ ref = Pending
    /\ log = <<>>
    /\ NoPersist /\ NoConc /\ NoBatch /\ NoRun

\* cfr_ref = calculate_cfr_ref(item)
CalcRef ==
    /\ ref = Pending
    /\ ref' = calculate_cfr_ref(item)
    /\ log' = calculate_cfr_ref_log(item)
    /\ UNCHANGED item
    /\ UNCHANGED <<flattenVars, persistVars, concVars, batchVars, runVars>>

NextRef == CalcRef

SpecRef == InitRef /\ [][NextRef]_vars

---------------------------------------------------------------------------
(* flatten as a function: the records of one call, given the counter value *)

\* the tree after every call of the traversal has stripped its node
StripAll(h) == [a \in DOMAIN h |-> Strip(h[a])]

RECURSIVE FlatNode(_, _, _, _, _)
RECURSIVE FlatChildren(_, _, _, _, _, _)

\* the records of the call on node a and of the calls it makes, in order
FlatNode(h, a, parent_chain, level, oid) ==
    <<Element(h, a, parent_chain, level, oid)>>
        \o FlatChildren(h, NodeChildren(h[a]), 1, ChildChain(parent_chain, a),
                        level + 1, oid + 1)

\* the records of the calls on children[j], children[j + 1], ...
FlatChildren(h, children, j, parent_chain, level, oid) ==
    IF j > Len(children)
    THEN <<>>
    ELSE LET first == FlatNode(h, ChildAt(children, j), parent_chain, level, oid)
         IN  first \o FlatChildren(h, children, j + 1, parent_chain, level,
                                   oid + Len(first))

\* flatten_all_elements_with_full_hierarchy(tree) with the counter at oid
Flatten(tree, oid) == FlatNode(StripAll(tree), 1, <<>>, 0, oid)

---------------------------------------------------------------------------
(* flatten invoked from several threads, each call with a counter list *)

MaxConcNodes == 2     \* nodes of a tree flattened concurrently

Threads == {1, 2}

\* every invocation is passed the same counter list
CounterShared(t) == 1

\* the counter list invocation t is passed: one of its own
CounterOf(t) == t

\* the trees: a title node and below it parts and sections in any shape
ConcTrees ==
    UNION {{MkTree(p, n, [i \in 1..n |-> IF i = 1 THEN "title" ELSE ty[i]],
                   "identifier", TRUE) :
                p \in ParentVectors(n), ty \in [1..n -> ShapeTypes]} :
           n \in 1..MaxConcNodes}

IdleThread ==
    [tree |-> <<>>, heap |-> <<>>, stack |-> <<>>, results |-> <<>>,
     pc |-> "idle", at |-> "strip", oid |-> 0, tmp |-> 0]

TopOf(t) == threads[t].stack[Len(threads[t].stack)]

\* thread t calls flatten(tree, order_id=counter) on a tree of its own
Invoke(t) ==
    /\ threads[t].pc = "idle"
    /\ \E tr \in ConcTrees :
          threads' = [threads EXCEPT ![t] =
                         [tree |-> tr, heap |-> tr, stack |-> <<Frame(1, <<>>, 0)>>,
                          results |-> <<>>, pc |-> "running", at |-> "strip",
                          oid |-> 0, tmp |-> 0]]
    /\ UNCHANGED counters
    /\ UNCHANGED <<flattenVars, refVars, persistVars, batchVars, runVars>>

\* lines 603-607: the keys of remove_list are deleted from the node
ConcStrip(t) ==
    /\ threads[t].pc = "running" /\ threads[t].at = "strip"
    /\ threads' = [threads EXCEPT ![t].heap[TopOf(t).node] = Strip(@),
                                  ![t].at = "read"]
    /\ UNCHANGED counters
    /\ UNCHANGED <<flattenVars, refVars, persistVars, batchVars, runVars>>

\* line 630: element["order_id"] = order_id[0]
ConcRead(t) ==
    /\ threads[t].pc = "running" /\ threads[t].at = "read"
    /\ threads' = [threads EXCEPT ![t].oid = counters[CounterOf(t)],
                                  ![t].at = "load"]
    /\ UNCHANGED counters
    /\ UNCHANGED <<flattenVars, refVars, persistVars, batchVars, runVars>>

\* line 631, order_id[0] += 1: the load of order_id[0]
ConcLoad(t) ==
    /\ threads[t].pc = "running" /\ threads[t].at = "load"
    /\ threads' = [threads EXCEPT ![t].tmp = counters[CounterOf(t)],
                                  ![t].at = "store"]
    /\ UNCHANGED counters
    /\ UNCHANGED <<flattenVars, refVars, persistVars, batchVars, runVars>>

\* line 631, order_id[0] += 1: the store of the incremented value
ConcStore(t) ==
    /\ threads[t].pc = "running" /\ threads[t].at = "store"
    /\ counters' = [counters EXCEPT ![CounterOf(t)] = threads[t].tmp + 1]
    /\ threads' = [threads EXCEPT ![t].at = "append"]
    /\ UNCHANGED <<flattenVars, refVars, persistVars, batchVars, runVars>>

\* lines 609-639: the record is completed and appended to results
ConcAppend(t) ==
    /\ threads[t].pc = "running" /\ threads[t].at = "append"
    /\ threads' = [threads EXCEPT
                      ![t].results = Append(@, Element(threads[t].heap, TopOf(t).node,
                                                       TopOf(t).parent_chain,
                                                       TopOf(t).level, threads[t].oid)),
                      ![t].stack[Len(threads[t].stack)].i = 1,
                      ![t].at = "loop"]
    /\ UNCHANGED counters
    /\ UNCHANGED <<flattenVars, refVars, persistVars, batchVars, runVars>>

\* lines 642-643: the call on the next child
ConcRecurse(t) ==
    /\ threads[t].pc = "running" /\ threads[t].at = "loop"
    /\ TopOf(t).i <= Len(NodeChildren(threads[t].heap[TopOf(t).node]))
    /\ threads' = [threads EXCEPT
                      ![t].stack =
                          Append([@ EXCEPT ![Len(@)].i = TopOf(t).i + 1],
                                 Frame(ChildAt(NodeChildren(threads[t].heap[TopOf(t).node]),
                                               TopOf(t).i),
                                       ChildChain(TopOf(t).parent_chain, TopOf(t).node),
                                       TopOf(t).level + 1)),
                      ![t].at = "strip"]
    /\ UNCHANGED counters
    /\ UNCHANGED <<flattenVars, refVars, persistVars, batchVars, runVars>>

\* line 645: return results
ConcReturn(t) ==
    /\ threads[t].pc = "running" /\ threads[t].at = "loop"
    /\ TopOf(t).i > Len(NodeChildren(threads[t].heap[TopOf(t).node]))
    /\ threads' = [threads EXCEPT
                      ![t].stack = SubSeq(@, 1, Len(@) - 1),
                      ![t].pc = IF Len(threads[t].stack) = 1 THEN "done" ELSE "running"]
    /\ UNCHANGED counters
    /\ UNCHANGED <<flattenVars, refVars, persistVars, batchVars, runVars>>

InitConc ==
    /\ heap = <<>>
    /\ tree_before = <<>>
    /\ stack = <<>>
    /\ results = <<>>
    /\ visited = <<>>
    /\ order_id = 1
    /\ calls = 0
    /\ pc = "idle"
    /\ item = EmptyDict
    /\ ref = Pending
    /\ log = <<>>
    /\ threads = [t \in Threads |-> IdleThread]
    /\ counters = [c \in Threads |-> 1]
    /\ NoPersist /\ NoBatch /\ NoRun

NextConc ==
    \/ \E t \in Threads : Invoke(t)
    \/ \E t \in Threads : ConcStrip(t)
    \/ \E t \in Threads : ConcRead(t)
    \/ \E t \in Threads : ConcLoad(t)
    \/ \E t \in Threads : ConcStore(t)
    \/ \E t \in Threads : ConcAppend(t)
    \/ \E t \in Threads : ConcRecurse(t)
    \/ \E t \in Threads : ConcReturn(t)

SpecConc == InitConc /\ [][NextConc]_vars

---------------------------------------------------------------------------
(* upsert_to_db and batch_upsert_to_db *)

MaxRecords == 3       \* records in the list passed to batch_upsert_to_db
MaxBatchSize == 2     \* the argument batch_size

\* the int that int(digits) returns, kept apart from the str of its digits
PyInt(digits) == "<int " \o digits \o ">"

\* the float that float(digits) returns
PyFloat(digits) == "<float " \o digits \o ">"

\* clean_numeric_value of a str: a str of digits, commas and blanks becomes
\* the int it denotes, one with a point in it the float, any other str is
\* returned as it is
clean_numeric_value(value) ==
    CASE value \in {"100", "4", "5", "19", "21"} -> PyInt(value)
      [] value = "1,080" -> PyInt("1080")
      [] value = " 7 " -> PyInt("7")
      [] value = "100.1" -> PyFloat("100.1")
      [] OTHER -> value

\* the columns whose values are ints and booleans: a value that is not a str
\* is returned as it is (line 53)
NotStrColumns == {"hierarchy_level", "is_leaf_node", "reserved", "order_id", "title_number"}

clean_record_values(record) ==
    [k \in DOMAIN record |->
        IF k \in NotStrColumns THEN record[k] ELSE clean_numeric_value(record[k])]

\* the table after the statement of upsert_to_db (lines 212-217, 228) has run:
\* INSERT ... ON CONFLICT(conflict_key) DO UPDATE SET col = excluded.col for
\* the columns of the record other than the conflict key
upsert_to_db(tbl, record, conflict_key) ==
    LET rec == clean_record_values(record)
        kv == rec[conflict_key]
    IN  SetItem(tbl, kv, IF Has(tbl, kv) THEN Update(tbl[kv], rec) ELSE rec)

\* the table after the statement of lines 351-356 has run: INSERT OR REPLACE
\* INTO table (columns) SELECT columns FROM the registered batch
RECURSIVE InsertOrReplace(_, _, _)
InsertOrReplace(tbl, batch, conflict_key) ==
    IF batch = <<>>
    THEN tbl
    ELSE LET rec == Head(batch)
             kv == rec[conflict_key]
         IN  InsertOrReplace(SetItem(tbl, kv,
                                     IF Has(tbl, kv) THEN Update(tbl[kv], rec) ELSE rec),
                             Tail(batch), conflict_key)

\* line 319: records = [clean_record_values(record) for record in records]
CleanedRecords == [k \in 1..Len(records) |-> clean_record_values(records[k])]

\* the index of the last record of the batch that starts after index i
BatchEnd(i) == IF i + batch_size < Len(records) THEN i + batch_size ELSE Len(records)

\* line 323: batch = records[i:i + batch_size]
Batch == SubSeq(CleanedRecords, batch_i + 1, BatchEnd(batch_i))

\* a count that takes every batch to be a full one
CountOfBatchSize(batch) == batch_size

\* line 357: total_upserted += len(batch)
CountOfBatch(batch) == Len(batch)

\* the position after the batch: the next batch, or the commit after the last
AfterBatch == IF batch_i + batch_size < Len(records) THEN "bulk" ELSE "commit"

\* the records of the lists: two with the same cfr_ref, one with another
RecordUniverse ==
    {[cfr_ref |-> "19 CFR pt100", part_id |-> "100", part_label |-> "Definitions"],
     [cfr_ref |-> "19 CFR pt100", part_id |-> "1,080", part_label |-> "Scope"],
     [cfr_ref |-> "19 CFR pt200", part_id |-> " 7 ", part_label |-> "Scope"]}

RecordLists == UNION {[1..n -> RecordUniverse] : n \in 0..MaxRecords}

\* the target table before the call: empty, or with a row from an earlier run
InitialTables ==
    {EmptyDict,
     [kv \in {"19 CFR pt100"} |->
         [cfr_ref |-> "19 CFR pt100", part_id |-> PyInt("9"), part_label |-> "General"]]}

\* an entry of the history of database operations
Op(kind, first, last, ok) == [op |-> kind, first |-> first, last |-> last, ok |-> ok]

\* lines 280-319: the call; an empty list returns 0 at once
BatchCall ==
    /\ bpc = "idle"
    /\ \E recs \in RecordLists, bs \in 1..MaxBatchSize :
          /\ records' = recs
          /\ batch_size' = bs
          /\ IF recs = <<>>
             THEN bpc' = "returned" /\ retval' = 0
             ELSE bpc' = "bulk" /\ retval' = Pending
    /\ batch_i' = 0
    /\ fallback_j' = 0
    /\ total_upserted' = 0
    /\ UNCHANGED <<table, oplog>>
    /\ UNCHANGED <<flattenVars, refVars, persistVars, concVars, runVars>>

\* lines 343-368: the batch is registered and inserted in one statement
BulkOk ==
    /\ bpc = "bulk"
    /\ table' = InsertOrReplace(table, Batch, "cfr_ref")
    /\ total_upserted' = total_upserted + CountOfBatch(Batch)
    /\ oplog' = Append(oplog, Op("bulk", batch_i + 1, BatchEnd(batch_i), TRUE))
    /\ batch_i' = batch_i + batch_size
    /\ bpc' = AfterBatch
    /\ UNCHANGED <<records, batch_size, fallback_j, retval>>
    /\ UNCHANGED <<flattenVars, refVars, persistVars, concVars, runVars>>

\* lines 370-373: the registration or the statement raises; the batch is
\* going to be upserted record by record
BulkFail ==
    /\ bpc = "bulk"
    /\ oplog' = Append(oplog, Op("bulk", batch_i + 1, BatchEnd(batch_i), FALSE))
    /\ fallback_j' = 1
    /\ bpc' = "fallback"
    /\ UNCHANGED <<records, batch_size, table, batch_i, total_upserted, retval>>
    /\ UNCHANGED <<flattenVars, refVars, persistVars, concVars, runVars>>

\* lines 374-377: upsert_to_db(conn, record, ..., auto_commit=False) succeeds
IndividualOk ==
    /\ bpc = "fallback"
    /\ table' = upsert_to_db(table, Batch[fallback_j], "cfr_ref")
    /\ total_upserted' = total_upserted + 1
    /\ oplog' = Append(oplog, Op("upsert", batch_i + fallback_j, batch_i + fallback_j, TRUE))
    /\ IF fallback_j < Len(Batch)
       THEN fallback_j' = fallback_j + 1 /\ UNCHANGED <<batch_i, bpc>>
       ELSE fallback_j' = 0 /\ batch_i' = batch_i + batch_size /\ bpc' = AfterBatch
    /\ UNCHANGED <<records, batch_size, retval>>
    /\ UNCHANGED <<flattenVars, refVars, persistVars, concVars, runVars>>

\* lines 378-379: upsert_to_db raises; the error is logged
IndividualFail ==
    /\ bpc = "fallback"
    /\ oplog' = Append(oplog, Op("upsert", batch_i + fallback_j, batch_i + fallback_j, FALSE))
    /\ IF fallback_j < Len(Batch)
       THEN fallback_j' = fallback_j + 1 /\ UNCHANGED <<batch_i, bpc>>
       ELSE fallback_j' = 0 /\ batch_i' = batch_i + batch_size /\ bpc' = AfterBatch
    /\ UNCHANGED <<records, batch_size, table, total_upserted, retval>>
    /\ UNCHANGED <<flattenVars, refVars, persistVars, concVars, runVars>>

\* lines 392-394, 403: conn.commit() succeeds; return total_upserted
CommitOk ==
    /\ bpc = "commit"
    /\ oplog' = Append(oplog, Op("commit", 0, 0, TRUE))
    /\ retval' = total_upserted
    /\ bpc' = "returned"
    /\ UNCHANGED <<records, batch_size, table, batch_i, fallback_j, total_upserted>>
    /\ UNCHANGED <<flattenVars, refVars, persistVars, concVars, runVars>>

\* lines 395-401: conn.commit() raises; DatabaseError is raised.  No statement
\* of the module opens a transaction, so the rollback has nothing to undo.
CommitFail ==
    /\ bpc = "commit"
    /\ oplog' = Append(oplog, Op("commit", 0, 0, FALSE))
    /\ bpc' = "raised"
    /\ UNCHANGED <<records, batch_size, table, batch_i, fallback_j, total_upserted, retval>>
    /\ UNCHANGED <<flattenVars, refVars, persistVars, concVars, runVars>>

InitBatch ==
    /\ heap = <<>>
    /\ tree_before = <<>>
    /\ stack = <<>>
    /\ results = <<>>
    /\ visited = <<>>
    /\ order_id = 1
    /\ calls = 0
    /\ pc = "idle"
    /\ item = EmptyDict
    /\ ref = Pending
    /\ log = <<>>
    /\ records = <<>>
    /\ batch_size = 0
    /\ table \in InitialTables
    /\ bpc = "idle"
    /\ batch_i = 0
    /\ fallback_j = 0
    /\ total_upserted = 0
    /\ retval = Pending
    /\ oplog = <<>>
    /\ NoPersist /\ NoConc /\ NoRun

NextBatch ==
    \/ BatchCall
    \/ BulkOk
    \/ BulkFail
    \/ IndividualOk
    \/ IndividualFail
    \/ CommitOk
    \/ CommitFail

SpecBatch == InitBatch /\ [][NextBatch]_vars

---------------------------------------------------------------------------
(* runs of the program over the database file, every statement succeeding *)

MaxRuns == 2         \* runs of the program over one database file
MaxRunNodes == 3     \* nodes of the structure of a title

\* the table after a call of batch_upsert_to_db all of whose statements
\* succeed: the cleaned records are inserted batch after batch, in order
batch_upsert_to_db(tbl, recs, conflict_key) ==
    InsertOrReplace(tbl, [k \in 1..Len(recs) |-> clean_record_values(recs[k])], conflict_key)

\* the entry of a title in the answer of the titles endpoint
TitleObj(number) ==
    [number |-> number,
     name |-> IF number = 19 THEN "Customs Duties" ELSE "Food and Drugs",
     latest_issue_date |-> "2025-01-02",
     up_to_date_as_of |-> "2025-01-01",
     reserved |-> FALSE]

\* a lookup that finds no download date, whatever the table has
existing_download_date_none(title) == None

\* lines 105-110: the download date the table has for the title, None when
\* it has no row for it
existing_download_date(title) ==
    IF Has(titles, title.number)
    THEN titles[title.number]["title_details_download_date"]
    ELSE None

\* lines 112-119: the record of a title
TitleRecordWithDate(title, date) ==
    [title_number |-> title.number,
     title_label |-> title.name,
     latest_issue_date |-> title.latest_issue_date,
     up_to_date_as_of |-> title.up_to_date_as_of,
     reserved |-> title.reserved,
     title_details_download_date |-> date]

\* lines 105-119: the record of a title, with the download date the table has
TitleRecord(title) == TitleRecordWithDate(title, existing_download_date(title))

\* get_standard_timestamp(): the time of the call as a string
get_standard_timestamp == "T" \o ToString(clock)

\* the structures the endpoint can answer with for a title: a title node
\* with its own number, and a chain of a chapter, a part and a section under it
RunTypes == <<"title", "chapter", "part", "section">>

RunTree(number, n) ==
    LET tree == MkTree(ChainVector(n), n, [i \in 1..n |-> RunTypes[i]], "identifier", TRUE)
    IN  [tree EXCEPT ![1] = SetItem(@, "identifier", ToString(number))]

RunTrees(number) == {RunTree(number, n) : n \in 1..MaxRunNodes}

\* the interpreter starts and loads the module: the def statement of line 597
\* creates the default list [1]
StartRun ==
    /\ rpc = "stopped"
    /\ runs < MaxRuns
    /\ runs' = runs + 1
    /\ order_id' = 1
    /\ rpc' = "metadata"
    /\ UNCHANGED <<titles, title_details, next_title, clock, last_structure, events>>
    /\ UNCHANGED <<heap, tree_before, stack, results, visited, calls, pc>>
    /\ UNCHANGED <<refVars, persistVars, concVars, batchVars>>

\* line 653: get_titles_metadata_and_write_to_db(conn)
Metadata ==
    /\ rpc = "metadata"
    /\ titles' = batch_upsert_to_db(titles,
                      [k \in DOMAIN filtered_titles |-> TitleRecord(TitleObj(filtered_titles[k]))],
                      "title_number")
    /\ next_title' = 1
    /\ rpc' = "titles"
    /\ UNCHANGED <<title_details, runs, clock, last_structure, events>>
    /\ UNCHANGED <<flattenVars, refVars, persistVars, concVars, batchVars>>

\* lines 655-663: get_parts_and_structure for the next title of the loop
ProcessTitle ==
    /\ rpc = "titles"
    /\ next_title <= Len(filtered_titles)
    /\ \E structure_json \in RunTrees(filtered_titles[next_title]) :
          LET title_number == filtered_titles[next_title]
              flattened == Flatten(structure_json, order_id)
              handed == HandedRecords(flattened, title_number)
          IN  /\ order_id' = order_id + Len(flattened)
              /\ last_structure' = SetItem(last_structure, title_number, structure_json)
              /\ title_details' = batch_upsert_to_db(title_details, handed, "cfr_ref")
              /\ IF filtered_flattened(flattened) = <<>>
                 THEN UNCHANGED <<titles, clock>>
                 ELSE /\ titles' = [titles EXCEPT
                             ![title_number]["title_details_download_date"] =
                                 get_standard_timestamp]
                      /\ clock' = clock + 1
    /\ next_title' = next_title + 1
    /\ UNCHANGED <<rpc, runs, events>>
    /\ UNCHANGED <<heap, tree_before, stack, results, visited, calls, pc>>
    /\ UNCHANGED <<refVars, persistVars, concVars, batchVars>>

\* lines 666-669: the loop is over, the connection is closed, the process ends
EndRun ==
    /\ rpc = "titles"
    /\ next_title > Len(filtered_titles)
    /\ rpc' = "stopped"
    /\ next_title' = 0
    /\ UNCHANGED <<titles, title_details, runs, clock, last_structure, events>>
    /\ UNCHANGED <<flattenVars, refVars, persistVars, concVars, batchVars>>

InitRun ==
    /\ heap = <<>>
    /\ tree_before = <<>>
    /\ stack = <<>>
    /\ results = <<>>
    /\ visited = <<>>
    /\ order_id = 1
    /\ calls = 0
    /\ pc = "idle"
    /\ item = EmptyDict
    /\ ref = Pending
    /\ log = <<>>
    /\ NoPersist /\ NoConc /\ NoBatch /\ NoRun

NextRun ==
    \/ StartRun
    \/ Metadata
    \/ ProcessTitle
    \/ EndRun

SpecRun == InitRun /\ [][NextRun]_vars

---------------------------------------------------------------------------
(* one run of the program, statement by statement, with requests and
   database statements that can fail *)

\* the dates the titles endpoint can give as up_to_date_as_of
AsOfDates == {"2025-01-01", "2025-02-01"}

TitleObjAsOf(number, as_of) == [TitleObj(number) EXCEPT !.up_to_date_as_of = as_of]

\* the table after upsert_to_db has been called for the records in order,
\* the calls for the records k with ok[k] succeeding and the others raising
RECURSIVE UpsertEach(_, _, _, _, _)
UpsertEach(tbl, recs, ok, k, conflict_key) ==
    IF k > Len(recs)
    THEN tbl
    ELSE UpsertEach(IF ok[k] THEN upsert_to_db(tbl, recs[k], conflict_key) ELSE tbl,
                    recs, ok, k + 1, conflict_key)

\* the table after the pattern of lines 124-137 and 313-327:
\* batch_upsert_to_db, whose bulk insert succeeds or falls back to an upsert
\* per record (ok1), and, when its commit raises, upsert_to_db per record (ok2)
WrittenWithFallback(tbl, recs, conflict_key, bulk_ok, commit_ok, ok1, ok2) ==
    LET first == IF bulk_ok
                 THEN batch_upsert_to_db(tbl, recs, conflict_key)
                 ELSE UpsertEach(tbl, recs, ok1, 1, conflict_key)
    IN  IF commit_ok THEN first ELSE UpsertEach(first, recs, ok2, 1, conflict_key)

\* lines 93-139: get_titles_metadata_and_write_to_db fetches the titles and
\* writes their records
WriteTitlesMetadata ==
    /\ rpc = "metadata"
    /\ \E as_of \in AsOfDates, bulk_ok \in BOOLEAN, commit_ok \in BOOLEAN,
          ok1 \in [DOMAIN filtered_titles -> BOOLEAN],
          ok2 \in [DOMAIN filtered_titles -> BOOLEAN] :
          titles' = WrittenWithFallback(titles,
                        [k \in DOMAIN filtered_titles |->
                            TitleRecord(TitleObjAsOf(filtered_titles[k], as_of))],
                        "title_number", bulk_ok, commit_ok, ok1, ok2)
    /\ next_title' = 1
    /\ rpc' = "titles"
    /\ UNCHANGED <<title_details, runs, clock, last_structure, events>>
    /\ UNCHANGED <<flattenVars, refVars, persistVars, concVars, batchVars>>

\* lines 95-96, 105-108, 140-142: the request or a SELECT raises; the
\* exception leaves the function and the process ends (lines 667-669)
MetadataRaises ==
    /\ rpc = "metadata"
    /\ rpc' = "stopped"
    /\ UNCHANGED <<titles, title_details, runs, next_title, clock, last_structure, events>>
    /\ UNCHANGED <<flattenVars, refVars, persistVars, concVars, batchVars>>

\* lines 206-220: the structure of the next title is fetched
FetchStructure ==
    /\ rpc = "titles"
    /\ next_title <= Len(filtered_titles)
    /\ \E n \in 1..MaxRunNodes :
          /\ heap' = RunTree(filtered_titles[next_title], n)
          /\ tree_before' = RunTree(filtered_titles[next_title], n)
    /\ results' = <<>>
    /\ detail_records' = <<>>
    /\ events' = <<"fetched">>
    /\ rpc' = "fetched"
    /\ UNCHANGED <<titles, title_details, runs, next_title, clock, last_structure>>
    /\ UNCHANGED <<stack, visited, order_id, calls, pc>>
    /\ UNCHANGED <<refVars, concVars, batchVars>>

\* lines 212-213, 339-347: the request raises; the exception is logged and
\* raised again, and the process ends
FetchRaises ==
    /\ rpc = "titles"
    /\ next_title <= Len(filtered_titles)
    /\ events' = <<"fetch raised">>
    /\ rpc' = "stopped"
    /\ UNCHANGED <<titles, title_details, runs, next_title, clock, last_structure>>
    /\ UNCHANGED <<flattenVars, refVars, persistVars, concVars, batchVars>>

\* line 223: flattened = flatten_all_elements_with_full_hierarchy(structure_json)
FlattenStructure ==
    /\ rpc = "fetched"
    /\ results' = Flatten(heap, order_id)
    /\ heap' = StripAll(heap)
    /\ order_id' = order_id + Len(heap)
    /\ events' = Append(events, "flattened")
    /\ rpc' = "flattened"
    /\ UNCHANGED <<titles, title_details, runs, next_title, clock, last_structure>>
    /\ UNCHANGED <<tree_before, stack, visited, calls, pc>>
    /\ UNCHANGED <<refVars, persistVars, concVars, batchVars>>

\* lines 230-250: the full XML is downloaded and its DIV elements are parsed
DownloadXml ==
    /\ rpc = "flattened"
    /\ events' = Append(events, "xml saved")
    /\ rpc' = "xml"
    /\ UNCHANGED <<titles, title_details, runs, next_title, clock, last_structure>>
    /\ UNCHANGED <<flattenVars, refVars, persistVars, concVars, batchVars>>

\* lines 252-255: the download or the parsing raises; the error is logged
XmlFails ==
    /\ rpc = "flattened"
    /\ events' = Append(events, "xml failed")
    /\ rpc' = "xml"
    /\ UNCHANGED <<titles, title_details, runs, next_title, clock, last_structure>>
    /\ UNCHANGED <<flattenVars, refVars, persistVars, concVars, batchVars>>

\* the table titles after the UPDATE of lines 332-335
DateUpdated(title_number) ==
    IF Has(titles, title_number)
    THEN [titles EXCEPT ![title_number]["title_details_download_date"] =
                            get_standard_timestamp]
    ELSE titles

\* an early return that sets the download date on its way out
NoDetailRecordsDateSet ==
    /\ rpc = "xml"
    /\ filtered_flattened(results) = <<>>
    /\ titles' = DateUpdated(filtered_titles[next_title])
    /\ events' = Append(events, "returned early")
    /\ next_title' = next_title + 1
    /\ rpc' = "titles"
    /\ UNCHANGED <<title_details, runs, clock, last_structure>>
    /\ UNCHANGED <<flattenVars, refVars, persistVars, concVars, batchVars>>

\* lines 259-263: nothing is left after the filter; the function returns
NoDetailRecords ==
    /\ rpc = "xml"
    /\ filtered_flattened(results) = <<>>
    /\ events' = Append(events, "returned early")
    /\ next_title' = next_title + 1
    /\ rpc' = "titles"
    /\ UNCHANGED <<titles, title_details, runs, clock, last_structure>>
    /\ UNCHANGED <<flattenVars, refVars, persistVars, concVars, batchVars>>

\* lines 265-329: the detail records are prepared and upserted
UpsertDetails ==
    /\ rpc = "xml"
    /\ filtered_flattened(results) /= <<>>
    /\ LET handed == HandedRecords(results, filtered_titles[next_title])
       IN  /\ detail_records' = handed
           /\ \E bulk_ok \in BOOLEAN, commit_ok \in BOOLEAN,
                 ok1 \in [DOMAIN handed -> BOOLEAN], ok2 \in [DOMAIN handed -> BOOLEAN] :
                 title_details' = WrittenWithFallback(title_details, handed, "cfr_ref",
                                                      bulk_ok, commit_ok, ok1, ok2)
    /\ events' = Append(events, "upserted")
    /\ rpc' = "upserted"
    /\ UNCHANGED <<titles, runs, next_title, clock, last_structure>>
    /\ UNCHANGED <<flattenVars, refVars, concVars, batchVars>>

\* lines 331-337: the download date of the title is set and committed
UpdateDownloadDate ==
    /\ rpc = "upserted"
    /\ titles' = DateUpdated(filtered_titles[next_title])
    /\ clock' = clock + 1
    /\ last_structure' = SetItem(last_structure, filtered_titles[next_title], tree_before)
    /\ events' = Append(events, "date set")
    /\ next_title' = next_title + 1
    /\ rpc' = "titles"
    /\ UNCHANGED <<title_details, runs>>
    /\ UNCHANGED <<flattenVars, refVars, persistVars, concVars, batchVars>>

\* lines 332-336, 345-347: the UPDATE raises, or it succeeds and the commit
\* raises; the exception is raised again and the process ends
UpdateRaises ==
    /\ rpc = "upserted"
    /\ \/ /\ UNCHANGED titles
          /\ events' = Append(events, "update raised")
       \/ /\ titles' = DateUpdated(filtered_titles[next_title])
          /\ events' = Append(events, "date set")
    /\ clock' = clock + 1
    /\ rpc' = "stopped"
    /\ UNCHANGED <<title_details, runs, next_title, last_structure>>
    /\ UNCHANGED <<flattenVars, refVars, persistVars, concVars, batchVars>>

\* the database file when the process starts: new, or as the run before has
\* left it, with title 19 processed with a chapter at the time T0 and title 21
\* not processed (its structure was the title node alone)
InitialDatabases ==
    {[titles |-> EmptyDict, title_details |-> EmptyDict],
     [titles |->
         [number \in {19, 21} |->
             TitleRecordWithDate(TitleObj(number), IF number = 19 THEN "T0" ELSE None)],
      title_details |->
         batch_upsert_to_db(EmptyDict, HandedRecords(Flatten(RunTree(19, 2), 1), 19),
                            "cfr_ref")]}

\* lines 647-652: the process has started and has its connection
InitMain ==
    /\ heap = <<>>
    /\ tree_before = <<>>
    /\ stack = <<>>
    /\ results = <<>>
    /\ visited = <<>>
    /\ order_id = 1
    /\ calls = 0
    /\ pc = "idle"
    /\ item = EmptyDict
    /\ ref = Pending
    /\ log = <<>>
    /\ \E db \in InitialDatabases :
          /\ titles = db.titles
          /\ title_details = db.title_details
    /\ rpc = "metadata"
    /\ runs = 1
    /\ next_title = 0
    /\ clock = 1
    /\ last_structure = EmptyDict
    /\ events = <<>>
    /\ NoPersist /\ NoConc /\ NoBatch

NextMain ==
    \/ WriteTitlesMetadata
    \/ MetadataRaises
    \/ FetchStructure
    \/ FetchRaises
    \/ FlattenStructure
    \/ DownloadXml
    \/ XmlFails
    \/ NoDetailRecords
    \/ UpsertDetails
    \/ UpdateDownloadDate
    \/ UpdateRaises
    \/ EndRun

SpecMain == InitMain /\ [][NextMain]_vars

---------------------------------------------------------------------------
(* vocabulary of the properties *)

\* the node a record was built from
NodeOf(i) == heap[visited[i]]

\* the nodes of the subtree rooted at a
RECURSIVE Subtree(_)
Subtree(a) ==
    LET kids == NodeChildren(heap[a])
    IN  {a} \cup UNION {Subtree(kids[j]) : j \in DOMAIN kids}

\* the position of node a's record in the output
Pos(a) == CHOOSE i \in 1..Len(visited) : visited[i] = a

\* the proper ancestors of node a
AncestorsOf(a) == {x \in DOMAIN heap : x /= a /\ a \in Subtree(x)}

\* the number of proper ancestors of node a
DepthOf(a) == Cardinality(AncestorsOf(a))

\* the keys the ancestors of a contribute to its record
AncestorKeys(a) == UNION {DOMAIN Namespaced(heap[x], {"children"}) : x \in AncestorsOf(a)}

\* a chain of three nodes of the types title, part, section whose identifiers
\* are held by the attributes k1, k2, k3
IsTitlePartSection(k1, k2, k3) ==
    /\ Len(heap) = 3
    /\ Get(heap[1], "type", None) = "title" /\ Has(heap[1], k1)
    /\ Get(heap[2], "type", None) = "part" /\ Has(heap[2], k2)
    /\ Get(heap[3], "type", None) = "section" /\ Has(heap[3], k3)
    /\ NodeChildren(heap[1]) = <<2>>
    /\ NodeChildren(heap[2]) = <<3>>
    /\ NodeChildren(heap[3]) = <<>>

\* the keys flatten sets after the merge of the own and the ancestor fields
ReservedKeys == {"hierarchy_level", "hierarchy_type", "order_id", "is_leaf_node", "cfr_ref"}

\* the ancestors of node a that contribute the key to its record
Producers(a, key) ==
    {x \in AncestorsOf(a) : key \in DOMAIN Namespaced(heap[x], {"children"})}

\* the value of the key as the contributing ancestor nearest to node a has it
NearestValue(a, key) ==
    LET x == CHOOSE x \in Producers(a, key) :
                 \A y \in Producers(a, key) : DepthOf(y) <= DepthOf(x)
    IN  Namespaced(heap[x], {"children"})[key]

\* the reserved keys of the i-th record hold the metadata of its node
ReservedMetadata(i) ==
    /\ ReservedKeys \subseteq DOMAIN results[i]
    /\ results[i]["hierarchy_level"] = DepthOf(visited[i])
    /\ results[i]["hierarchy_type"] = Get(NodeOf(i), "type", None)
    /\ results[i]["order_id"] = results[1]["order_id"] + i - 1
    /\ results[1]["order_id"] >= 1
    /\ results[i]["is_leaf_node"] = (NodeChildren(NodeOf(i)) = <<>>)
    /\ results[i]["cfr_ref"] = calculate_cfr_ref(results[i])

\* the value of an identifier of the record under test, "" when it has none
Val(k) == Get(item, k, "")

\* the identifier is present: the key exists and its value is non-empty
P(k) == Has(item, k) /\ item[k] /= ""

ItemType == Get(item, "hierarchy_type", None)

Called == ref /= Pending

\* the database operations of the batch_upsert_to_db call that failed
FailedOps == {k \in DOMAIN oplog : ~oplog[k].ok}

\* the operations of the kind that had the record at index i in them
OpsOn(kind, i) ==
    {k \in DOMAIN oplog :
        oplog[k].op = kind /\ oplog[k].first <= i /\ i <= oplog[k].last}

\* the successful statements that wrote the record at index i
WritesOf(i) == {k \in OpsOn("bulk", i) \cup OpsOn("upsert", i) : oplog[k].ok}

\* the indices of the records that were written
WrittenIdx == {i \in 1..Len(records) : WritesOf(i) /= {}}

\* the bulk statements of the call, in order
BulkOps == SelectSeq(oplog, LAMBDA o : o.op = "bulk")

---------------------------------------------------------------------------
(* C1 *)

\* C1: every flatten call made without a counter returns one record per node
\* with order_id 1, 2, ..., N in output order, the first call of the process
\* and every later one.
C1_OrderIdsFromOne ==
    pc = "done" =>
        /\ Len(results) = Len(heap)
        /\ \A i \in 1..Len(results) : results[i]["order_id"] = i

---------------------------------------------------------------------------
(* C2 *)

\* C2: flatten returns exactly one record per node, in pre-order: a node
\* before all of its descendants, the whole subtree of a child before any
\* record of the subtree of a later sibling, siblings in their original order.
C2_PreOrder ==
    pc = "done" =>
        /\ Len(results) = Len(heap)
        /\ Len(visited) = Len(results)
        /\ \A a \in DOMAIN heap : \E i \in 1..Len(visited) : visited[i] = a
        /\ \A i \in 1..Len(results) :
              /\ results[i]["hierarchy_type"] = Get(NodeOf(i), "type", None)
              /\ results[i]["hierarchy_level"] = DepthOf(visited[i])
        /\ \A a \in DOMAIN heap : \A d \in Subtree(a) \ {a} : Pos(a) < Pos(d)
        /\ \A a \in DOMAIN heap :
              LET kids == NodeChildren(heap[a])
              IN  \A i, j \in DOMAIN kids :
                      i < j => \A x \in Subtree(kids[i]), y \in Subtree(kids[j]) :
                                  Pos(x) < Pos(y)

\* a finished call on the tree 1 -> (2 -> (4), 3): the output order 1, 2, 4, 3
\* is not the order of the addresses
C2_Witness == pc = "done" /\ visited = <<1, 2, 4, 3>>

---------------------------------------------------------------------------
(* C3 *)

\* C3: a key produced from a node's own attributes that is also produced from
\* one of its ancestors holds the node's own value in the node's record (the
\* keys of the reserved metadata set aside).
C3_OwnFieldPrecedence ==
    \A i \in 1..Len(results) :
        LET node == NodeOf(i)
        IN  \A k \in DOMAIN node \ {"children", "type"} :
                (/\ NsKey(Prefix(node), k) \in AncestorKeys(visited[i])
                 /\ NsKey(Prefix(node), k) \notin ReservedKeys)
                    => results[i][NsKey(Prefix(node), k)] = node[k]

---------------------------------------------------------------------------
(* C4 *)

\* C4: calculate_cfr_ref is total: for every record it returns a string that
\* is not None and it does not raise.
C4_Total ==
    Called => /\ ref \in STRING
              /\ ref /= None
              /\ ref /= KeyError

\* the record {hierarchy_type: "subject_group"} has been given a reference
C4_Witness ==
    /\ Called
    /\ DOMAIN item = {"hierarchy_type"}
    /\ item["hierarchy_type"] = "subject_group"

---------------------------------------------------------------------------
(* C5 *)

---------------------------------------------------------------------------
(* C6 *)

\* C6: without a truthy title_identifier calculate_cfr_ref returns
\* "CFR {hierarchy_type}" when the record has a hierarchy_type and
\* "CFR unknown" when it has none, whatever the other identifiers.
C6_DegradedOnMissingTitle ==
    (Called /\ ~P("title_identifier")) =>
        ref = IF Has(item, "hierarchy_type")
              THEN "CFR " \o Str(item["hierarchy_type"])
              ELSE "CFR unknown"

---------------------------------------------------------------------------
(* C7 *)

\* C7: a record's is_leaf_node is true exactly when the node's children are
\* empty or the node has no children key; every node, with or without the
\* key, gets its record.
C7_LeafFlag ==
    /\ \A i \in 1..Len(results) :
          results[i]["is_leaf_node"] =
              (~Has(NodeOf(i), "children") \/ NodeOf(i)["children"] = <<>>)
    /\ pc = "done" => \A a \in DOMAIN heap : \E i \in 1..Len(results) : visited[i] = a

\* a finished call whose tree has a node with children, a node with an empty
\* children list and a node without the children key
C7_Witness ==
    /\ pc = "done"
    /\ \E i, j, k \in 1..Len(results) :
          /\ ~Has(NodeOf(i), "children") /\ results[i]["is_leaf_node"]
          /\ Has(NodeOf(j), "children") /\ NodeOf(j)["children"] = <<>>
          /\ results[j]["is_leaf_node"]
          /\ Has(NodeOf(k), "children") /\ NodeOf(k)["children"] /= <<>>
          /\ ~results[k]["is_leaf_node"]

---------------------------------------------------------------------------
(* C8 *)

\* C8: for an appendix record with a title identifier the context is the
\* section if there is one, else the part if there is one, else none; the
\* appendix identifier follows as " ( {appendix})" when it is present.
C8_AppendixRule ==
    (Called /\ ItemType = "appendix" /\ P("title_identifier")) =>
        LET base_ref == Val("title_identifier") \o " CFR"
            tail == IF P("appendix_identifier")
                    THEN " ( " \o Val("appendix_identifier") \o ")"
                    ELSE ""
        IN  /\ P("section_identifier") =>
                  ref = base_ref \o " §" \o Val("section_identifier") \o tail
            /\ (~P("section_identifier") /\ P("part_identifier")) =>
                  ref = base_ref \o " pt" \o Val("part_identifier") \o tail
            /\ (~P("section_identifier") /\ ~P("part_identifier")) =>
                  ref = base_ref \o tail
            /\ (/\ Val("title_identifier") = "19"
                /\ Val("section_identifier") = "5"
                /\ Val("appendix_identifier") = "A") => ref = "19 CFR §5 ( A)"

\* an appendix of title 19 with section 5, a part and appendix A has been
\* given the reference of its section
C8_Witness ==
    /\ Called
    /\ ItemType = "appendix"
    /\ P("part_identifier")
    /\ ref = "19 CFR §5 ( A)"

---------------------------------------------------------------------------
(* C9 *)

\* the base a subject group is given, by the first context present among
\* appendix, section, subpart, part, subchapter
C9_Context(base_ref) ==
    CASE P("appendix_identifier") ->
            IF P("section_identifier")
            THEN base_ref \o " §" \o Val("section_identifier")
                          \o " ( " \o Val("appendix_identifier") \o ")"
            ELSE base_ref \o " ( " \o Val("appendix_identifier") \o ")"
      [] ~P("appendix_identifier") /\ P("section_identifier") ->
            base_ref \o " §" \o Val("section_identifier")
      [] /\ ~P("appendix_identifier") /\ ~P("section_identifier")
         /\ P("subpart_identifier") ->
            IF P("part_identifier")
            THEN base_ref \o " pt" \o Val("part_identifier") \o "-" \o Val("subpart_identifier")
            ELSE base_ref \o " (Subpart " \o Val("subpart_identifier") \o ")"
      [] /\ ~P("appendix_identifier") /\ ~P("section_identifier")
         /\ ~P("subpart_identifier") /\ P("part_identifier") ->
            base_ref \o " pt" \o Val("part_identifier")
      [] /\ ~P("appendix_identifier") /\ ~P("section_identifier")
         /\ ~P("subpart_identifier") /\ ~P("part_identifier")
         /\ P("subchapter_identifier") ->
            IF P("chapter_identifier")
            THEN base_ref \o " ch" \o Val("chapter_identifier")
                          \o "-" \o Val("subchapter_identifier")
            ELSE base_ref \o " (Subchapter " \o Val("subchapter_identifier") \o ")"
      [] OTHER -> base_ref

\* C9: for a subject_group record with a title identifier the base is that of
\* the first context present in the order appendix, section, subpart, part,
\* subchapter, else the bare base_ref, for every combination of identifiers;
\* " (Subj Grp {id})" follows exactly when the subject group id is present.
C9_SubjectGroupRule ==
    (Called /\ ItemType = "subject_group" /\ P("title_identifier")) =>
        LET base_ref == Val("title_identifier") \o " CFR"
        IN  /\ ref = C9_Context(base_ref) \o
                        (IF P("subject_group_identifier")
                         THEN " (Subj Grp " \o Val("subject_group_identifier") \o ")"
                         ELSE "")
            /\ (/\ Val("title_identifier") = "26"
                /\ Val("part_identifier") = "200"
                /\ Val("subject_group_identifier") = "3"
                /\ \A k \in IdKeys \ {"title_identifier", "part_identifier",
                                      "subject_group_identifier"} : ~Has(item, k))
                    => ref = "26 CFR pt200 (Subj Grp 3)"

\* a subject group of title 26 with only part 200 and subject group 3
C9_Witness ==
    /\ Called
    /\ ItemType = "subject_group"
    /\ DOMAIN item = {"hierarchy_type", "title_identifier", "part_identifier",
                      "subject_group_identifier"}
    /\ ref = "26 CFR pt200 (Subj Grp 3)"

---------------------------------------------------------------------------
(* C10 *)

\* C10: with a title identifier, title gives base_ref; chapter, part and
\* section append their one identifier when it is present; subchapter and
\* subpart append "ch{chapter}-{subchapter}" / "pt{part}-{subpart}" only when
\* both identifiers are present; base_ref alone otherwise.
C10_SimpleDispatch ==
    (Called /\ P("title_identifier")) =>
        LET base_ref == Val("title_identifier") \o " CFR"
        IN  /\ ItemType = "title" => ref = base_ref
            /\ ItemType = "chapter" =>
                  ref = IF P("chapter_identifier")
                        THEN base_ref \o " ch" \o Val("chapter_identifier")
                        ELSE base_ref
            /\ ItemType = "part" =>
                  ref = IF P("part_identifier")
                        THEN base_ref \o " pt" \o Val("part_identifier")
                        ELSE base_ref
            /\ ItemType = "section" =>
                  ref = IF P("section_identifier")
                        THEN base_ref \o " §" \o Val("section_identifier")
                        ELSE base_ref
            /\ ItemType = "subchapter" =>
                  ref = IF P("chapter_identifier") /\ P("subchapter_identifier")
                        THEN base_ref \o " ch" \o Val("chapter_identifier")
                                      \o "-" \o Val("subchapter_identifier")
                        ELSE base_ref
            /\ ItemType = "subpart" =>
                  ref = IF P("part_identifier") /\ P("subpart_identifier")
                        THEN base_ref \o " pt" \o Val("part_identifier")
                                      \o "-" \o Val("subpart_identifier")
                        ELSE base_ref

\* a subchapter that has its own identifier but no chapter identifier has
\* been given the bare base_ref
C10_Witness ==
    /\ Called
    /\ ItemType = "subchapter"
    /\ P("subchapter_identifier")
    /\ ~P("chapter_identifier")
    /\ ref = "26 CFR"

---------------------------------------------------------------------------
(* C11 *)

\* C11: for a record with a truthy title identifier whose hierarchy_type is
\* none of the known kinds (null and absent included) calculate_cfr_ref
\* returns "{title} CFR ({hierarchy_type})", null and absent rendered as
\* None, logs one warning naming the unrecognized type, and does not raise.
C11_UnknownTypeFallback ==
    (Called /\ P("title_identifier")
            /\ ItemType \notin {"title", "chapter", "subchapter", "part", "subpart",
                                "section", "appendix", "subject_group"}) =>
        /\ ref /= KeyError
        /\ ref = Val("title_identifier") \o " CFR (" \o Str(ItemType) \o ")"
        /\ log = <<"Unknown hierarchy_type: " \o Str(ItemType)>>

\* a record of the unrecognized type volume and one without hierarchy_type,
\* both with a title identifier and a part identifier, have been given the
\* fallback reference
C11_Witness ==
    /\ Called
    /\ P("part_identifier")
    /\ \/ ItemType = "volume" /\ ref = "19 CFR (volume)"
       \/ ~Has(item, "hierarchy_type") /\ ref = "26 CFR (None)"
    /\ Len(log) = 1

---------------------------------------------------------------------------
(* C12 *)

\* C12: no record holds a key derived from size, volumes or descendant_range:
\* for every record, the node it was built from and each ancestor of that
\* node, none of "{type}_size", "{type}_volumes", "{type}_descendant_range"
\* (root for a node without type) is a key of the record.
C12_NoVolatileKeys ==
    \A i \in 1..Len(results) :
        \A x \in {visited[i]} \cup AncestorsOf(visited[i]) :
            \A k \in {"size", "volumes", "descendant_range"} :
                /\ NsKey(Prefix(heap[x]), k) \notin DOMAIN results[i]
                /\ k \notin DOMAIN results[i]

\* a finished call on a title -> part -> section chain whose title node came
\* with size and volumes and whose part node came with descendant_range
C12_Witness ==
    /\ pc = "done"
    /\ IsTitlePartSection("identifier", "identifier", "identifier")
    /\ LET title == MkNode("title", "identifier", 1, <<2>>, TRUE)
           part == MkNode("part", "identifier", 2, <<3>>, TRUE)
       IN  /\ {"size", "volumes"} \subseteq DOMAIN title
           /\ "descendant_range" \in DOMAIN part
           /\ heap[1] = DelKeys(title, {"size", "volumes"})
           /\ heap[2] = DelKeys(part, {"descendant_range"})
    /\ Len(results) = 3
    /\ Has(results[3], "title_identifier") /\ Has(results[3], "part_identifier")

---------------------------------------------------------------------------
(* C13 *)

\* C13 as stated: for every record, every ancestor of its node and every
\* attribute of the ancestor other than children, the record has the key
\* "{ancestor type}_{attribute}" (root for an ancestor without type), and a
\* key that two different ancestors produce holds the value of the nearer one.
C13_AncestorPreservation ==
    \A i \in 1..Len(results) :
        \A a \in AncestorsOf(visited[i]) :
            \A k \in DOMAIN heap[a] \ {"children"} :
                LET key == NsKey(Prefix(heap[a]), k)
                IN  /\ key \in DOMAIN results[i]
                    /\ Cardinality(Producers(visited[i], key)) >= 2
                          => results[i][key] = NearestValue(visited[i], key)

\* C13 amended: the record has the key "{ancestor type}_{attribute}" for
\* every ancestor and every attribute of it other than children; a key that
\* is not a reserved key holds the value of the nearest ancestor producing it,
\* whether one ancestor produces it or several; a key that is a reserved key
\* holds the metadata of the record's own node.
C13_AncestorPreservationUnreserved ==
    \A i \in 1..Len(results) :
        \A a \in AncestorsOf(visited[i]) :
            \A k \in DOMAIN heap[a] \ {"children"} :
                LET key == NsKey(Prefix(heap[a]), k)
                IN  /\ key \in DOMAIN results[i]
                    /\ key \notin ReservedKeys
                          => results[i][key] = NearestValue(visited[i], key)
                    /\ key \in ReservedKeys => ReservedMetadata(i)

\* a finished call on a part -> part -> section chain: both ancestors produce
\* part_identifier and part_type, and the section's record holds the
\* identifier of the nearer part and the identifier of none other
C13_Witness ==
    /\ pc = "done"
    /\ Len(heap) = 3 /\ Len(results) = 3
    /\ visited = <<1, 2, 3>>
    /\ AncestorsOf(3) = {1, 2}
    /\ Has(heap[1], "type") /\ heap[1]["type"] = "part"
    /\ Has(heap[2], "type") /\ heap[2]["type"] = "part"
    /\ Has(heap[3], "type") /\ heap[3]["type"] = "section"
    /\ Has(heap[1], "identifier") /\ heap[1]["identifier"] = "21"
    /\ Has(heap[2], "identifier") /\ heap[2]["identifier"] = "100"
    /\ Producers(3, "part_identifier") = {1, 2}
    /\ results[3]["part_identifier"] = "100"
    /\ results[3]["part_type"] = "part"

---------------------------------------------------------------------------
(* C14 *)

\* C14: every record has the reserved keys hierarchy_level, hierarchy_type,
\* order_id, is_leaf_node and cfr_ref; hierarchy_level is the depth of the
\* node (0 for the root, the parent's level + 1 for a child), hierarchy_type
\* is the node's type, and each reserved key holds the metadata flatten
\* computes even when an attribute of the node or of an ancestor is
\* namespaced to the same key.
C14_ReservedKeys ==
    /\ \A i \in 1..Len(results) : ReservedMetadata(i)
    /\ Len(results) >= 1 => results[1]["hierarchy_level"] = 0
    /\ \A i, j \in 1..Len(results) :
          (\E c \in DOMAIN NodeChildren(NodeOf(i)) :
                NodeChildren(NodeOf(i))[c] = visited[j])
              => results[j]["hierarchy_level"] = results[i]["hierarchy_level"] + 1

\* a finished call on the chain hierarchy -> order -> hierarchy whose nodes
\* carry the attributes level, id and level: the third record has the keys
\* hierarchy_level and hierarchy_type from its own attributes and from the
\* first node, order_id from the second, and holds the metadata
C14_Witness ==
    /\ pc = "done"
    /\ Len(heap) = 3 /\ Len(results) = 3
    /\ visited = <<1, 2, 3>>
    /\ Get(heap[1], "type", None) = "hierarchy" /\ Has(heap[1], "level")
    /\ Get(heap[2], "type", None) = "order" /\ Has(heap[2], "id")
    /\ Get(heap[3], "type", None) = "hierarchy" /\ Has(heap[3], "level")
    /\ heap[1]["level"] = 101 /\ heap[2]["id"] = 0 - 2 /\ heap[3]["level"] = 103
    /\ Producers(3, "hierarchy_level") = {1}
    /\ Producers(3, "hierarchy_type") = {1}
    /\ Producers(3, "order_id") = {2}
    /\ results[1]["hierarchy_level"] = 0
    /\ results[2]["hierarchy_level"] = 1
    /\ results[3]["hierarchy_level"] = 2
    /\ results[3]["hierarchy_type"] = "hierarchy"
    /\ results[3]["order_id"] >= 3

---------------------------------------------------------------------------
(* C20 *)

\* C20: for every hierarchy_type and every identifier key, a record that has
\* the key with an empty value is given the same reference as the same record
\* without the key.
C20_EmptyIsAbsent ==
    Called =>
        \A k \in {"title_identifier", "chapter_identifier", "subchapter_identifier",
                  "part_identifier", "subpart_identifier", "section_identifier",
                  "appendix_identifier", "subject_group_identifier"} :
            (Has(item, k) /\ item[k] = "") => ref = calculate_cfr_ref(DelKeys(item, {k}))

\* an appendix record with an empty section identifier and a part identifier
\* has been given the reference of its part context
C20_Witness ==
    /\ Called
    /\ ItemType = "appendix"
    /\ Has(item, "section_identifier") /\ item["section_identifier"] = ""
    /\ P("title_identifier") /\ P("part_identifier") /\ ~Has(item, "appendix_identifier")
    /\ ref = Val("title_identifier") \o " CFR pt" \o Val("part_identifier")

---------------------------------------------------------------------------
(* C17 *)

\* C17: every record get_parts_and_structure hands to the title_details
\* upsert has a hierarchy_type other than title and a non-empty cfr_ref, and
\* the records handed over are those of all flattened records that are not of
\* type title and have a non-empty cfr_ref, in flatten output order.
C17_OutputBoundaryFilter ==
    pc = "persisted" =>
        LET wanted == SelectSeq(results,
                                LAMBDA r : /\ r["hierarchy_type"] /= "title"
                                           /\ r["cfr_ref"] /= ""
                                           /\ r["cfr_ref"] /= None)
            handed == detail_records
        IN  /\ \A j \in 1..Len(handed) :
                  /\ handed[j]["hierarchy_type"] /= "title"
                  /\ handed[j]["cfr_ref"] /= ""
                  /\ handed[j]["cfr_ref"] /= None
            /\ Len(handed) = Len(wanted)
            /\ \A j \in 1..Len(handed) :
                  /\ handed[j]["cfr_ref"] = wanted[j]["cfr_ref"]
                  /\ handed[j]["order_id"] = wanted[j]["order_id"]
                  /\ handed[j]["hierarchy_type"] = wanted[j]["hierarchy_type"]
                  /\ handed[j]["hierarchy_level"] = wanted[j]["hierarchy_level"]

\* the records of a title -> part -> section chain have been prepared: the
\* title's record is held back, the part's and the section's are handed over
C17_Witness ==
    /\ pc = "persisted"
    /\ IsTitlePartSection("identifier", "identifier", "identifier")
    /\ Len(results) = 3
    /\ Len(detail_records) = 2
    /\ detail_records[1]["cfr_ref"] = "21 CFR pt100"
    /\ detail_records[2]["cfr_ref"] = "21 CFR §100.1"
    /\ detail_records[1]["part_id"] = "100"

---------------------------------------------------------------------------
(* C15 *)

\* C15: under every interleaving of the steps of concurrent flatten
\* invocations on trees of their own, each with its own counter list, the
\* records an invocation has produced are the first records it produces when
\* run alone, the finished invocation has returned exactly the records of the
\* run alone with order_id 1..N, and its counter holds N + 1.
C15_ConcurrentInvocations ==
    \A t \in Threads :
        LET th == threads[t]
            alone == Flatten(th.tree, 1)
        IN  th.pc /= "idle" =>
                /\ Len(th.results) <= Len(alone)
                /\ th.results = SubSeq(alone, 1, Len(th.results))
                /\ \A i \in 1..Len(th.results) : th.results[i]["order_id"] = i
                /\ th.pc = "done" =>
                      /\ th.results = alone
                      /\ Len(th.results) = Len(th.tree)
                      /\ counters[t] = Len(th.tree) + 1

\* both invocations are between the load and the store of the increment for
\* their second node at the same time
C15_Witness ==
    /\ \A t \in Threads :
          /\ threads[t].pc = "running"
          /\ threads[t].at = "store"
          /\ Len(threads[t].results) = 1
          /\ Len(threads[t].stack) = 2
          /\ threads[t].oid = 2
    /\ threads[1].tree /= threads[2].tree

---------------------------------------------------------------------------
(* C18 *)

\* C18: batch_upsert_to_db does not return normally after a database
\* operation of the call failed, be it the bulk insert of a batch, an
\* individual upsert of the fallback or the final commit: a call that has
\* returned has had no failed operation.
C18_RaisesOnAnyFailure ==
    bpc = "returned" => FailedOps = {}

---------------------------------------------------------------------------
(* C19 *)

\* C19: the bulk inserts of a call are attempted on the consecutive batches
\* of batch_size records, every record in exactly one of them; the records of
\* a batch whose bulk insert failed, and only those, are upserted one by one;
\* no record is written twice; the value returned is the number of records
\* written, which lies between 0 and len(records) and is len(records) when no
\* operation failed; for an empty list it is 0 and the database is not
\* accessed.  The row of a key is the last record written with that key.
C19_ReturnedCount ==
    /\ \A i \in 1..Len(records) :
          /\ Cardinality(WritesOf(i)) <= 1
          /\ Cardinality(OpsOn("bulk", i)) <= 1
          /\ Cardinality(OpsOn("upsert", i)) <= 1
          /\ OpsOn("upsert", i) /= {} =>
                \E k \in OpsOn("bulk", i) :
                    ~oplog[k].ok /\ \A u \in OpsOn("upsert", i) : k < u
    /\ \A b \in 1..Len(BulkOps) :
          /\ BulkOps[b].first = (b - 1) * batch_size + 1
          /\ BulkOps[b].last =
                IF b * batch_size < Len(records) THEN b * batch_size ELSE Len(records)
    /\ \A kv \in {records[i]["cfr_ref"] : i \in WrittenIdx} :
          LET last == CHOOSE i \in WrittenIdx :
                          /\ records[i]["cfr_ref"] = kv
                          /\ \A j \in WrittenIdx : records[j]["cfr_ref"] = kv => j <= i
          IN  /\ Has(table, kv)
              /\ table[kv]["part_label"] = records[last]["part_label"]
              /\ table[kv]["part_id"] =
                    (CASE records[last]["part_id"] = "100" -> "<int 100>"
                       [] records[last]["part_id"] = "1,080" -> "<int 1080>"
                       [] records[last]["part_id"] = " 7 " -> "<int 7>")
    /\ bpc = "returned" =>
          /\ retval = Cardinality(WrittenIdx)
          /\ retval >= 0 /\ retval <= Len(records)
          /\ FailedOps = {} => retval = Len(records)
          /\ records = <<>> => retval = 0 /\ oplog = <<>>
          /\ \A i \in 1..Len(records) :
                /\ Cardinality(OpsOn("bulk", i)) = 1
                /\ \A k \in OpsOn("bulk", i) :
                      ~oplog[k].ok => Cardinality(OpsOn("upsert", i)) = 1

\* a call with three records and batch_size 2 has returned 2: the bulk insert
\* of the first batch failed, its first record was upserted, its second was
\* not, and the second batch was inserted
C19_Witness ==
    /\ bpc = "returned"
    /\ Len(records) = 3 /\ batch_size = 2
    /\ Len(oplog) = 5
    /\ oplog[1] = Op("bulk", 1, 2, FALSE)
    /\ oplog[2] = Op("upsert", 1, 1, TRUE)
    /\ oplog[3] = Op("upsert", 2, 2, FALSE)
    /\ oplog[4] = Op("bulk", 3, 3, TRUE)
    /\ oplog[5] = Op("commit", 0, 0, TRUE)
    /\ retval = 2

---------------------------------------------------------------------------
(* C16 *)

\* the record lists get_parts_and_structure can hand over in the state
RunRecords ==
    {HandedRecords(Flatten(RunTree(filtered_titles[k], n), order_id), filtered_titles[k]) :
        k \in DOMAIN filtered_titles, n \in 1..MaxRunNodes}

\* upserting a record, or a list of records, a second time changes nothing,
\* and the row of the record's key holds the record's (cleaned) values
UpsertTwiceIsOnce ==
    \A recs \in RunRecords :
        LET once == batch_upsert_to_db(title_details, recs, "cfr_ref")
        IN  /\ batch_upsert_to_db(once, recs, "cfr_ref") = once
            /\ \A k \in DOMAIN recs :
                  LET one == upsert_to_db(title_details, recs[k], "cfr_ref")
                  IN  /\ upsert_to_db(one, recs[k], "cfr_ref") = one
                      /\ one[recs[k]["cfr_ref"]] = clean_record_values(recs[k])
                      /\ once[recs[k]["cfr_ref"]] = clean_record_values(recs[k])

\* the table of the titles without the download timestamps
WithoutDownloadDate(tbl) ==
    [k \in DOMAIN tbl |-> DelKeys(tbl[k], {"title_details_download_date"})]

\* the step processes a title whose structure is the one it had when the
\* title was processed last
ReprocessedUnchanged ==
    /\ rpc = "titles"
    /\ next_title' = next_title + 1
    /\ Has(last_structure, filtered_titles[next_title])
    /\ last_structure'[filtered_titles[next_title]] =
          last_structure[filtered_titles[next_title]]

\* C16: upserting the same record or the same list of records twice in
\* succession leaves the table as upserting it once does, with one row per
\* conflict-key value holding the record's values; and processing a title
\* again whose data has not changed leaves title_details unchanged, and titles
\* unchanged apart from the download timestamp.
C16_IdempotentUpsert ==
    /\ [](rpc = "titles" => UpsertTwiceIsOnce)
    /\ [][ReprocessedUnchanged =>
             /\ title_details' = title_details
             /\ WithoutDownloadDate(titles') = WithoutDownloadDate(titles)]_vars

---------------------------------------------------------------------------
(* C21 *)

\* the prefix of a node's keys as the documentation has it: the node's type,
\* or "root" when the type is absent or null
DocumentedPrefix(node) ==
    IF ~Has(node, "type") \/ node["type"] = None THEN "root" ELSE node["type"]

\* the keys the node's own attributes contribute under the documented prefix
DocumentedOwnKeys(node) ==
    {DocumentedPrefix(node) \o "_" \o k : k \in DOMAIN node \ {"children", "type"}}

\* the keys the attributes of the ancestors of node a contribute under it
DocumentedAncestorKeys(a) ==
    UNION {{DocumentedPrefix(heap[x]) \o "_" \o k : k \in DOMAIN heap[x] \ {"children"}} :
              x \in AncestorsOf(a)}

\* C21: every attribute of a node other than children and type contributes the
\* key "{type}_{attribute}" to the node's record, the prefix being the node's
\* type, or "root" when the type is absent or null; the record has no key that
\* is neither contributed by an attribute of the node or of an ancestor nor a
\* key of the reserved metadata.
C21_NamespacingPrefix ==
    \A i \in 1..Len(results) :
        /\ DocumentedOwnKeys(NodeOf(i)) \subseteq DOMAIN results[i]
        /\ DOMAIN results[i] \subseteq
              DocumentedOwnKeys(NodeOf(i)) \cup DocumentedAncestorKeys(visited[i])
                  \cup ReservedKeys

---------------------------------------------------------------------------
(* C22 *)

\* C22: when flatten(root) has returned, the tree has the nodes it had before
\* the call, and every node has the attributes it had before the call except
\* size, volumes and descendant_range, each with the value it had, the children
\* sequence and its order included; the removal has reached every node.  While
\* the call runs, a node that has not been visited yet is as it was.
C22_MutationFrame ==
    /\ pc \in {"done", "persisted"} =>
          /\ DOMAIN heap = DOMAIN tree_before
          /\ \A a \in DOMAIN heap :
                /\ DOMAIN heap[a] =
                      DOMAIN tree_before[a] \ {"size", "volumes", "descendant_range"}
                /\ \A k \in DOMAIN heap[a] : heap[a][k] = tree_before[a][k]
    /\ pc = "running" =>
          \A a \in DOMAIN heap :
              (\A i \in DOMAIN visited : visited[i] /= a) => heap[a] = tree_before[a]

\* a finished call on a title with a part under it: the title had size and
\* volumes, the part had descendant_range, and both have lost them
C22_Witness ==
    /\ pc = "done"
    /\ Len(tree_before) = 2
    /\ {"size", "volumes", "identifier", "children"} \subseteq DOMAIN tree_before[1]
    /\ {"descendant_range", "identifier", "children"} \subseteq DOMAIN tree_before[2]
    /\ tree_before[1]["children"] = <<2>>
    /\ DOMAIN heap[1] = {"type", "identifier", "children"}
    /\ DOMAIN heap[2] = {"type", "identifier", "children"}

---------------------------------------------------------------------------
(* C23 *)

\* the download date a table has for a title
DateOf(tbl, number) == tbl[number]["title_details_download_date"]

\* the step changes the download date of a row, or inserts a row with a date
DateChanged ==
    \E number \in DOMAIN titles' :
        IF number \in DOMAIN titles
        THEN DateOf(titles', number) /= DateOf(titles, number)
        ELSE DateOf(titles', number) /= None

\* C23: get_titles_metadata_and_write_to_db, whichever of its write paths it
\* takes, keeps every row of titles, leaves the download date of every row
\* that existed as it was and gives a row it inserts a null date; a step that
\* changes a download date is the UPDATE of get_parts_and_structure.
C23_MetadataKeepsDate ==
    [][/\ rpc = "metadata" => ~DateChanged /\ DOMAIN titles \subseteq DOMAIN titles'
       /\ DateChanged => rpc = "upserted"]_vars

\* the metadata of title 19, processed at T0 by the run before, has been
\* written again with a new up_to_date_as_of, and the row of title 21 with it
C23_Witness ==
    /\ rpc = "titles"
    /\ next_title = 1
    /\ DOMAIN titles = {19, 21}
    /\ titles[19]["up_to_date_as_of"] = "2025-02-01"
    /\ titles[21]["up_to_date_as_of"] = "2025-02-01"
    /\ DateOf(titles, 19) = "T0"
    /\ DateOf(titles, 21) = None

---------------------------------------------------------------------------
(* C24 *)

\* what get_parts_and_structure has done when it reaches the UPDATE
BeforeUpdate ==
    {<<"fetched", "flattened", xml, "upserted">> : xml \in {"xml saved", "xml failed"}}

\* C24: a step that changes a download date changes that of the title at hand
\* only, and is taken after the structure of the title was fetched and
\* flattened and its detail records, one for every node but the title, were
\* handed to the upsert; the steps in which the fetch raises or the function
\* returns because nothing is left after the filter change no date; whether
\* the XML download failed or not, the upsert and then the UPDATE are the
\* steps the function can take next.
C24_DateAfterUpsert ==
    /\ [][DateChanged =>
             /\ rpc = "upserted"
             /\ events \in BeforeUpdate
             /\ \A number \in DOMAIN titles' \ {filtered_titles[next_title]} :
                   number \in DOMAIN titles /\ titles'[number] = titles[number]]_vars
    /\ [][(rpc' = "stopped" /\ events' = <<"fetch raised">>) => ~DateChanged]_vars
    /\ [][(events' /= <<>> /\ events'[Len(events')] = "returned early") => ~DateChanged]_vars
    /\ [](rpc = "upserted" =>
             /\ DOMAIN heap = DOMAIN tree_before
             /\ results = Flatten(tree_before, results[1]["order_id"])
             /\ Len(detail_records) = Len(heap) - 1
             /\ detail_records = HandedRecords(results, filtered_titles[next_title])
             /\ ENABLED UpdateDownloadDate)
    /\ [](rpc = "xml" =>
             /\ events[3] \in {"xml saved", "xml failed"}
             /\ filtered_flattened(results) /= <<>> => ENABLED UpsertDetails)

\* the XML download of title 19 failed; its chapter has been written to
\* title_details all the same, and its download date has been set
C24_Witness ==
    /\ events = <<"fetched", "flattened", "xml failed", "upserted", "date set">>
    /\ rpc = "titles"
    /\ next_title = 2
    /\ Has(titles, 19)
    /\ DateOf(titles, 19) = "T1"
    /\ Has(title_details, "19 CFR ch100")
    /\ title_details["19 CFR ch100"]["order_id"] = 2

=============================================================================
